---- MODULE Spec2Model ----
(***************************************************************************)
(* A model of the stage-0 Cog compiler (src/bootstrap/main.c): the type    *)
(* system and implicit coercion, the symbol table with its scopes and      *)
(* function-signature reconciliation, and the expression code generator    *)
(* with its in-frame temp stack.                                           *)
(*                                                                         *)
(* The specifications share the definitions:                               *)
(*   SpecCoerce  inputs (e, T) drawn from bounded sets; type_le,           *)
(*               try_coerce and check_type applied to them.                *)
(*   Spec        the parser's walk over declarations, parameters, blocks   *)
(*               and `var` statements, driving the symbol table.           *)
(*   SpecEmit    expression trees built by the expression builder and      *)
(*               emitted as statements by emit_expr.                       *)
(*   SpecParse   p_expr applied to token sequences of a statement.         *)
(*   SpecBuild   build_unary_expr and build_binary_expr applied to operands*)
(*               of every kind.                                            *)
(*   SpecScope   nested blocks and `var` statements in a function body.    *)
(*   SpecDeep    deeply nested expression statements emitted by emit_expr. *)
(*   SpecStruct  the fields of a struct declaration, added by add_field.   *)
(*   SpecConst   p_const_expr applied to token sequences.                  *)
(*   SpecTarget  emit_expr applied to a tree and each target register.     *)
(*   SpecVariadic  emit_expr applied to calls with variadic arguments.     *)
(*   SpecFrame   the parameters and locals of one function, with blocks.   *)
(*   SpecIndex   emit_lvalue applied to indexed arrays and pointers.       *)
(***************************************************************************)
EXTENDS Integers, Sequences, FiniteSets, TLC

VARIABLES
    \* ---- symbol table and parser position (Spec)
    sym_table,      \* Symbol **sym_table: the entries below sym_count (the rest is never read)
    sym_count,      \* int sym_count
    first_sym,      \* int first_sym[MAX_SCOPES + 1], indexed 0..MAX_SCOPES
    scope_depth,    \* int scope_depth
    current_func,   \* Symbol *current_func (NoSym for NULL)
    pc,             \* where the parser stands: "top", "params", "body", "exit"
    err,            \* the diagnostic the process exited with ("" while running)
    ndecls,         \* top-level declarations begun so far
    nitems,         \* parameters and body statements parsed so far
    opened,         \* history: a snapshot taken at each enter_scope still open
    last_left,      \* history: what the last leave_scope closed and what it restored
    defs,           \* history: per function name, the definitions (with body) accepted
    fdecl,          \* history: the function declaration in progress or last finished
    last_add,       \* history: the last add_sym call of the step just taken
    \* ---- coercion harness (SpecCoerce)
    cexpr,          \* the expression handed to try_coerce / check_type
    ctarget,        \* the target / expected type
    cphase,         \* "input", "coerced", "checked", "compared"
    cout,           \* the result of the operation applied
    \* ---- expression builder and emitter (SpecEmit)
    estack,         \* expressions built so far and not yet consumed
    temp_stack_top, \* int temp_stack_top
    label_count,    \* int label_count
    emitted,        \* the code printed for the last statement
    estatus,        \* "stmt" (between statements), the statement form being parsed, "exit"
    eerr,           \* the diagnostic the compiler exited or aborted with
    \* ---- expression parser (SpecParse)
    ptoks,          \* the tokens of the statement, up to its `;`
    pphase,         \* "input", "parsed"
    presult,        \* what p_expr returned: the tree, or the diagnostic it exited with
    \* ---- expression builders applied to given operands (SpecBuild)
    bop,            \* the operator handed to build_unary_expr / build_binary_expr
    blhs,           \* the left operand
    brhs,           \* the right (or only) operand
    bphase,         \* "input", "unary", "binary"
    bout,           \* what the builder returned: the node, or the diagnostic
    \* ---- struct declarations (SpecStruct)
    stype,          \* Type *type of p_decl: the struct being declared
    sphase,         \* "fields" (inside the braces), "done", "exit"
    serr,           \* the diagnostic the process exited with
    \* ---- emit_expr applied to a tree and a target register (SpecTarget)
    texpr,          \* Expr *e
    tt0,            \* int t0
    tcode,          \* the code emit_expr printed
    tphase,         \* "input", "emitted", "exit"
    \* ---- the locals of one function (SpecFrame, with the symbol table)
    declared,       \* history: the locals add_local has added to the function, in order
    left            \* history: locals_size before and after each leave_scope

symvars == <<sym_table, sym_count, first_sym, scope_depth, current_func, pc, err,
             ndecls, nitems, opened, last_left, defs, fdecl, last_add>>
coercevars == <<cexpr, ctarget, cphase, cout>>
emitvars == <<estack, temp_stack_top, label_count, emitted, estatus, eerr>>
parsevars == <<ptoks, pphase, presult>>
buildvars == <<bop, blhs, brhs, bphase, bout>>
structvars == <<stype, sphase, serr>>
targetvars == <<texpr, tt0, tcode, tphase>>
framevars == <<declared, left>>
vars == <<symvars, coercevars, emitvars, parsevars, buildvars, structvars, targetvars, framevars>>

\* What the actions of one specification leave alone.
NotSym == <<coercevars, emitvars, parsevars, buildvars, structvars, targetvars, framevars>>
NotCoerce == <<symvars, emitvars, parsevars, buildvars, structvars, targetvars, framevars>>
NotEmit == <<symvars, coercevars, parsevars, buildvars, structvars, targetvars, framevars>>
NotParse == <<symvars, coercevars, emitvars, buildvars, structvars, targetvars, framevars>>
NotBuild == <<symvars, coercevars, emitvars, parsevars, structvars, targetvars, framevars>>
NotStruct == <<symvars, coercevars, emitvars, parsevars, buildvars, targetvars, framevars>>
NotTarget == <<symvars, coercevars, emitvars, parsevars, buildvars, structvars, framevars>>
NotFrame == <<coercevars, emitvars, parsevars, buildvars, structvars, targetvars>>

-----------------------------------------------------------------------------
(* Misc *)

\* C's integer division truncates toward zero.
CDiv(a, b) ==
    LET abs(x) == IF x < 0 THEN -x ELSE x
        q == abs(a) \div abs(b)
    IN  IF (a < 0) = (b < 0) THEN q ELSE -q

align_up(size, align) == CDiv(size + align - 1, align) * align

RECURSIVE ilog2(_)
ilog2(n) == IF n > 1 THEN 1 + ilog2(n \div 2) ELSE 0

-----------------------------------------------------------------------------
(* Type System *)

MAX_FIELDS == 16

NoType == [kind |-> "None"]

\* calloc'ed Type with the kind set.  A struct type is identified by its
\* name: struct symbols live at scope depth 0, where names are unique.
mk_type(kind) ==
    [kind |-> kind, size |-> 0, base |-> NoType, len |-> 0, name |-> "",
     field_names |-> <<>>, field_types |-> <<>>, field_offsets |-> <<>>,
     field_count |-> 0, unpadded_size |-> 0]

mk_int_type(size) == [mk_type("Int") EXCEPT !.size = size]

mk_bool_type == mk_type("Bool")

mk_ptr_type(base) == [mk_type("Ptr") EXCEPT !.base = base]

mk_arr_type(base, size) == [mk_type("Arr") EXCEPT !.base = base, !.len = size]

mk_struct_type(name) == [mk_type("Struct") EXCEPT !.name = name]

RECURSIVE type_align(_)
type_align(type) ==
    CASE type.kind = "Void" -> -1
      [] type.kind = "Bool" -> 1
      [] type.kind = "Int" -> type.size
      [] type.kind = "Ptr" -> 8
      [] type.kind = "Arr" -> type_align(type.base)
      [] type.kind = "Struct" -> 8

RECURSIVE type_size(_)
type_size(type) ==
    CASE type.kind = "Void" -> -1
      [] type.kind = "Bool" -> 1
      [] type.kind = "Int" -> type.size
      [] type.kind = "Ptr" -> 8
      [] type.kind = "Arr" ->
            align_up(type_size(type.base), type_align(type)) * type.len
      [] type.kind = "Struct" ->
            IF type.field_count = 0 THEN -1
            ELSE align_up(type.unpadded_size, type_align(type))

\* field_names[n] of the source is field_names[n + 1] here, and so on.  The
\* result is the struct after the call and the diagnostic of a fatal one.
add_field(type, name, field_type) ==
    IF type.kind # "Struct" THEN [type |-> type, err |-> "Assertion failed"]
    ELSE IF type.field_count = MAX_FIELDS THEN [type |-> type, err |-> "Too many fields"]
    ELSE LET offset == align_up(type.unpadded_size, type_align(field_type))
         IN  [type |-> [type EXCEPT !.field_names = Append(@, name),
                                    !.field_types = Append(@, field_type),
                                    !.field_offsets = Append(@, offset),
                                    !.unpadded_size = offset + type_size(field_type),
                                    !.field_count = @ + 1],
              err |-> ""]

is_scalar(type) == type.kind = "Bool" \/ type.kind = "Int" \/ type.kind = "Ptr"

RECURSIVE type_eq(_, _)
type_eq(a, b) ==
    IF a.kind # b.kind THEN FALSE
    ELSE IF a.kind = "Int" THEN a.size = b.size
    ELSE IF a.kind = "Ptr" THEN type_eq(a.base, b.base)
    ELSE IF a.kind = "Arr" THEN a.len = b.len /\ type_eq(a.base, b.base)
    ELSE IF a.kind = "Struct" THEN a.name = b.name
    ELSE TRUE

\* A slip type_le could have: the pointer rule reads the target's base.
type_le_ptr_swapped(t1, t2) ==
    IF is_scalar(t1) /\ t2.kind = "Bool" THEN TRUE
    ELSE IF t1.kind = "Int" /\ t2.kind = "Int" THEN t1.size <= t2.size
    ELSE IF t1.kind = "Ptr" /\ t2.kind = "Ptr" THEN t2.base.kind = "Void"
    ELSE FALSE

\* Subtyping for implicit conversions
type_le(t1, t2) ==
    IF is_scalar(t1) /\ t2.kind = "Bool" THEN TRUE
    ELSE IF t1.kind = "Int" /\ t2.kind = "Int" THEN t1.size <= t2.size
    ELSE IF t1.kind = "Ptr" /\ t2.kind = "Ptr" THEN t1.base.kind = "Void"
    ELSE FALSE

-----------------------------------------------------------------------------
(* Symbols and expressions: the records *)

MAX_PARAMS == 8
MAX_SCOPES == 16

NoSym == [kind |-> "None"]

mk_sym(kind, name) ==
    [kind |-> kind, name |-> name, is_extern |-> FALSE, type |-> NoType,
     frame_offset |-> 0, value |-> 0, param_count |-> 0, param_names |-> <<>>,
     param_types |-> <<>>, is_variadic |-> FALSE, locals_size |-> 0,
     defined |-> FALSE]

\* A slip is_lvalue could have: a cast of an lvalue counts as one.
is_lvalue_through_cast(expr) == expr.kind \in {"<var>", "*_", "_[_]", "_._", "as"}

is_lvalue(expr) ==
    expr.kind = "<var>" \/ expr.kind = "*_" \/ expr.kind = "_[_]" \/ expr.kind = "_._"

mk_expr(kind, type) ==
    [kind |-> kind, type |-> type, int_value |-> 0, sym |-> NoSym, args |-> <<>>,
     arg_count |-> 0, field_index |-> 0]

mk_expr_3(kind, e1, e2, e3, type) == [mk_expr(kind, type) EXCEPT !.args = <<e1, e2, e3>>]

mk_expr_2(kind, e1, e2, type) == [mk_expr(kind, type) EXCEPT !.args = <<e1, e2>>]

mk_expr_1(kind, e1, type) == [mk_expr(kind, type) EXCEPT !.args = <<e1>>]

try_coerce(expr, target) ==
    IF type_eq(expr.type, target) THEN expr
    ELSE IF type_le(expr.type, target) THEN mk_expr_1("as", expr, target)
    ELSE IF expr.type.kind = "Int" /\ target.kind = "Int" THEN
        LET size == ilog2(expr.int_value) + 1
        IN  IF size < target.size THEN mk_expr_1("as", expr, target) ELSE expr
    ELSE expr

\* A slip check_type could have: any pointer target accepts any pointer.
check_type_any_ptr(expr, expected) ==
    LET e == try_coerce(expr, expected)
    IN  IF expected.kind = "Ptr" /\ e.type.kind = "Ptr"
        THEN [ok |-> TRUE, expr |-> e, err |-> ""]
        ELSE IF ~type_eq(e.type, expected)
        THEN [ok |-> FALSE, expr |-> e, err |-> "Type mismatch"]
        ELSE [ok |-> TRUE, expr |-> e, err |-> ""]

\* check_type returns the expression left in *expr_p, or exits with a
\* "Type mismatch" diagnostic.
check_type(expr, expected) ==
    LET e == try_coerce(expr, expected)
    IN  IF expected.kind = "Ptr" /\ expected.base.kind = "Void" /\ e.type.kind = "Ptr"
        THEN [ok |-> TRUE, expr |-> e, err |-> ""]
        ELSE IF ~type_eq(e.type, expected)
        THEN [ok |-> FALSE, expr |-> e, err |-> "Type mismatch"]
        ELSE [ok |-> TRUE, expr |-> e, err |-> ""]

-----------------------------------------------------------------------------
(* The inputs of the coercion harness *)

MaxTypeDepth == 1

\* struct P { x: Int, y: Int8 } and the field-less extern struct E;
StructP ==
    add_field(add_field(mk_struct_type("P"), "x", mk_int_type(8)).type, "y", mk_int_type(1)).type
StructE == mk_struct_type("E")

BaseTypes ==
    {mk_type("Void"), mk_bool_type, mk_int_type(1), mk_int_type(2), mk_int_type(4),
     mk_int_type(8), StructP, StructE}

ArrLens == {2}

RECURSIVE TypesOfDepth(_)
TypesOfDepth(d) ==
    IF d = 0 THEN BaseTypes
    ELSE LET S == TypesOfDepth(d - 1)
         IN  S \cup {mk_ptr_type(b) : b \in S}
               \cup {mk_arr_type(b, n) : b \in S, n \in ArrLens}

Types == TypesOfDepth(MaxTypeDepth)

\* Values an <int> node of type Int(8) can carry: a decimal literal, sizeof,
\* or a named constant (const N = -40000;), within C's int.
IntValues == {-40000, -32769, -32768, -129, -128, -1, 0, 1, 2, 7, 8, 127, 128, 32767, 40000}

CharValues == {0, 65, 126}

int_node(type, v) == [mk_expr("<int>", type) EXCEPT !.int_value = v]

var_node(type) ==
    [mk_expr("<var>", type) EXCEPT !.sym = [mk_sym("Global", "v") EXCEPT !.type = type]]

call_node(type) ==
    [mk_expr("_(_)", type) EXCEPT !.sym = [mk_sym("Func", "g") EXCEPT !.type = type]]

\* What p_expr can hand to the coercion routines: the <int> nodes of
\* lines 1072-1092 and 1135-1137, and nodes of other kinds, whose int_value
\* calloc left 0.
CoerceExprs ==
    {int_node(mk_int_type(8), v) : v \in IntValues}
      \cup {int_node(mk_int_type(1), v) : v \in CharValues}
      \cup {int_node(mk_bool_type, v) : v \in {0, 1}}
      \cup {int_node(mk_ptr_type(mk_type("Void")), 0)}
      \cup {var_node(t) : t \in Types}
      \cup {call_node(t) : t \in {u \in BaseTypes : is_scalar(u) \/ u.kind = "Void"}}
      \cup {mk_expr_2("_+_", var_node(t), var_node(t), t) : t \in {u \in BaseTypes : u.kind = "Int"}}

NoExpr == [kind |-> "None"]

NoOut == [ok |-> FALSE, expr |-> NoExpr, err |-> ""]

CoerceInit ==
    /\ cexpr \in CoerceExprs
    /\ ctarget \in Types
    /\ cphase = "input"
    /\ cout = NoOut

CoerceIdle ==
    /\ cexpr = NoExpr
    /\ ctarget = NoType
    /\ cphase = "idle"
    /\ cout = NoOut

\* try_coerce(&e, T)
CoTryCoerce ==
    /\ cphase = "input"
    /\ cout' = [ok |-> TRUE, expr |-> try_coerce(cexpr, ctarget), err |-> ""]
    /\ cphase' = "coerced"
    /\ UNCHANGED <<cexpr, ctarget>>
    /\ UNCHANGED NotCoerce

\* check_type(&e, T)
CoCheckType ==
    /\ cphase = "input"
    /\ cout' = check_type(cexpr, ctarget)
    /\ cphase' = "checked"
    /\ UNCHANGED <<cexpr, ctarget>>
    /\ UNCHANGED NotCoerce

\* type_le(e->type, T)
CoTypeLe ==
    /\ cphase = "input"
    /\ cout' = [ok |-> type_le(cexpr.type, ctarget), expr |-> cexpr, err |-> ""]
    /\ cphase' = "compared"
    /\ UNCHANGED <<cexpr, ctarget>>
    /\ UNCHANGED NotCoerce

-----------------------------------------------------------------------------
(* Symbol Table *)

FRAME_LOCALS_SIZE == 128
FRAME_TEMP_SIZE == 512
FRAME_ARGS_SIZE == 64
FRAME_SIZE == FRAME_LOCALS_SIZE + FRAME_TEMP_SIZE + FRAME_ARGS_SIZE

\* The symbol-table globals as one value, so that a handler's calls compose.
\* A call made after the process has exited (err set) does nothing.
NoAdd == [tried |-> FALSE, name |-> "", dup |-> FALSE, outer |-> FALSE, ok |-> FALSE, found |-> FALSE]

Cur ==
    [sym_table |-> sym_table, sym_count |-> sym_count, first_sym |-> first_sym,
     scope_depth |-> scope_depth, current_func |-> current_func, err |-> err,
     added |-> NoAdd]

Exit(s, msg) == [s EXCEPT !.err = msg]

enter_scope(s) ==
    IF s.err # "" THEN s
    ELSE IF s.scope_depth + 1 = MAX_SCOPES THEN Exit(s, "Maximum scope depth reached")
    ELSE [s EXCEPT !.scope_depth = s.scope_depth + 1,
                   !.first_sym[s.scope_depth + 1] = s.sym_count]

\* A slip leave_scope could have: the depth is popped, the table is not truncated.
leave_scope_keep_syms(s) ==
    IF s.err # "" THEN s
    ELSE [s EXCEPT !.scope_depth = s.scope_depth - 1]

leave_scope(s) ==
    IF s.err # "" THEN s
    ELSE [s EXCEPT !.sym_count = s.first_sym[s.scope_depth],
                   !.scope_depth = s.scope_depth - 1]

\* sym_table[i] of the source is sym_table[i + 1] here.
find_sym_within(s, name, depth) ==
    LET hits == {i \in s.first_sym[depth] .. s.sym_count - 1 : s.sym_table[i + 1].name = name}
    IN  IF hits = {} THEN NoSym
        ELSE s.sym_table[(CHOOSE i \in hits : \A j \in hits : j <= i) + 1]

find_sym(s, name) == find_sym_within(s, name, 0)

\* What an add_sym call met and did, for the history variable last_add:
\* s is the table before the call, t after it.
Added(s, t, sym) ==
    [tried |-> TRUE, name |-> sym.name,
     dup |-> find_sym_within(s, sym.name, s.scope_depth) # NoSym,
     outer |-> find_sym_within(s, sym.name, s.scope_depth) = NoSym /\ find_sym(s, sym.name) # NoSym,
     ok |-> t.err = "",
     found |-> t.err = "" /\ find_sym(t, sym.name) = sym]

\* A slip add_sym could have: the name is looked for in every scope.
add_sym_all_scopes(s, sym) ==
    IF s.err # "" THEN s
    ELSE LET t == IF find_sym_within(s, sym.name, 0) # NoSym
                  THEN Exit(s, "Symbol already defined")
                  ELSE [s EXCEPT !.sym_table = SubSeq(s.sym_table, 1, s.sym_count) \o <<sym>>
                                   \o SubSeq(s.sym_table, s.sym_count + 2, Len(s.sym_table)),
                                 !.sym_count = s.sym_count + 1]
         IN  [t EXCEPT !.added = Added(s, t, sym)]

add_sym(s, sym) ==
    IF s.err # "" THEN s
    ELSE LET t == IF find_sym_within(s, sym.name, s.scope_depth) # NoSym
                  THEN Exit(s, "Symbol already defined")
                  ELSE [s EXCEPT !.sym_table = SubSeq(s.sym_table, 1, s.sym_count) \o <<sym>>
                                   \o SubSeq(s.sym_table, s.sym_count + 2, Len(s.sym_table)),
                                 !.sym_count = s.sym_count + 1]
         IN  [t EXCEPT !.added = Added(s, t, sym)]

add_type(s, name, type) == add_sym(s, [mk_sym("Type", name) EXCEPT !.type = type])

\* A slip add_local could have: the new offset is not aligned.
add_local_unaligned(s, name, type) ==
    IF s.err # "" THEN s
    ELSE LET offset == s.current_func.locals_size + type_size(type)
         IN  IF offset > FRAME_LOCALS_SIZE THEN Exit(s, "Ran out of local variable space")
             ELSE add_sym([s EXCEPT !.current_func.locals_size = offset],
                          [mk_sym("Local", name) EXCEPT !.type = type, !.frame_offset = offset])

\* locals_size is read and written through current_func only.
add_local(s, name, type) ==
    IF s.err # "" THEN s
    ELSE LET offset == align_up(s.current_func.locals_size + type_size(type), type_align(type))
         IN  IF offset > FRAME_LOCALS_SIZE THEN Exit(s, "Ran out of local variable space")
             ELSE add_sym([s EXCEPT !.current_func.locals_size = offset],
                          [mk_sym("Local", name) EXCEPT !.type = type, !.frame_offset = offset])

add_global(s, is_extern, name, type) ==
    add_sym(s, [mk_sym("Global", name) EXCEPT !.is_extern = is_extern, !.type = type])

add_const(s, name, value) ==
    add_sym(s, [mk_sym("Const", name) EXCEPT !.type = mk_int_type(8), !.value = value])

func_eq(a, b) ==
    IF a.param_count # b.param_count \/ a.is_variadic # b.is_variadic \/ ~type_eq(a.type, b.type)
    THEN FALSE
    ELSE \A i \in 1 .. a.param_count : type_eq(a.param_types[i], b.param_types[i])

add_func(s, func) ==
    IF s.err # "" THEN s
    ELSE LET existing == find_sym(s, func.name)
         IN  IF existing # NoSym /\ existing.kind = "Func" /\ func_eq(func, existing)
                  /\ ~(existing.defined /\ func.defined)
             THEN s
             ELSE add_sym(s, func)

-----------------------------------------------------------------------------
(* Parsing: declarations, parameters, blocks and `var` statements *)

\* The size of the input: the top-level declarations, and the parameters
\* and body statements, of the whole source text.
MaxDecls == 3
MaxItems == 2

FuncNames == {"f"}
ParamNames == {"f", "x"}
ParamTypes == {mk_int_type(1), mk_int_type(8)}
RetTypes == {mk_type("Void"), mk_int_type(8)}
GlobalNames == {"f"}
LocalNames == {"x", "y"}
Names == FuncNames \cup ParamNames \cup GlobalNames \cup LocalNames

\* Types a `var` statement can name: sized ones, and [Int8; 0], [Int; -2],
\* [Void; 1], Void and the field-less E.
LocalTypes ==
    {mk_int_type(1), mk_int_type(8), mk_arr_type(mk_int_type(8), 15), mk_arr_type(mk_int_type(8), 17),
     mk_arr_type(mk_int_type(1), 0), mk_arr_type(mk_int_type(8), -2),
     mk_arr_type(mk_type("Void"), 1), mk_type("Void"), StructE}

Snap(s) ==
    [count |-> s.sym_count, depth |-> s.scope_depth,
     lookup |-> [n \in Names |-> find_sym(s, n)]]

EmptySnap == [count |-> 0, depth |-> 0, lookup |-> [n \in Names |-> NoSym]]

NoLeft == [closed |-> FALSE, entered |-> EmptySnap, restored |-> EmptySnap, dropped |-> 0]

Left(before, after) ==
    [closed |-> TRUE, entered |-> opened[Len(opened)], restored |-> Snap(after),
     dropped |-> before.sym_count - after.sym_count]

NoDecl ==
    [existing |-> NoSym, count |-> 0, done |-> FALSE, ok |-> FALSE, matched |-> FALSE,
     wellformed |-> FALSE, count_after |-> 0]

\* The outcome of a function declaration, for the history variable fdecl:
\* func is the declared symbol, s the state the declaration ended in.
Outcome(func, has_body, s) ==
    [fdecl EXCEPT
        !.done = TRUE,
        !.ok = (s.err = ""),
        !.matched = /\ fdecl.existing # NoSym
                    /\ fdecl.existing.kind = "Func"
                    /\ func_eq(func, fdecl.existing)
                    /\ ~(fdecl.existing.defined /\ func.defined),
        !.wellformed = /\ ~(func.is_extern /\ has_body)
                       /\ \A i, j \in 1 .. func.param_count :
                            i # j => func.param_names[i] # func.param_names[j],
        !.count_after = s.sym_count]

\* The globals after a handler's calls.  exit(1) ends the process: nothing of
\* its memory is left but the diagnostic it wrote.
Commit(s) ==
    IF s.err # ""
    THEN /\ sym_table' = <<>>
         /\ sym_count' = 0
         /\ first_sym' = [i \in 0 .. MAX_SCOPES |-> 0]
         /\ scope_depth' = 0
         /\ current_func' = NoSym
         /\ err' = s.err
         /\ last_add' = s.added
    ELSE /\ sym_table' = SubSeq(s.sym_table, 1, s.sym_count)
         /\ sym_count' = s.sym_count
         /\ first_sym' = s.first_sym
         /\ scope_depth' = s.scope_depth
         /\ current_func' = s.current_func
         /\ err' = s.err
         /\ last_add' = s.added

SymStart(at) ==
    /\ sym_table = <<>>
    /\ sym_count = 0
    /\ first_sym = [i \in 0 .. MAX_SCOPES |-> 0]
    /\ scope_depth = 0
    /\ current_func = NoSym
    /\ pc = at
    /\ err = ""
    /\ ndecls = 0
    /\ nitems = 0
    /\ opened = <<>>
    /\ last_left = NoLeft
    /\ defs = [n \in FuncNames |-> 0]
    /\ fdecl = NoDecl
    /\ last_add = NoAdd

SymInit == SymStart("top")

SymIdle == SymStart("idle")

\* p_decl, `func NAME`: lines 1390-1395
PDeclFunc(name, is_extern) ==
    /\ pc = "top"
    /\ ndecls < MaxDecls
    /\ LET s0 == [Cur EXCEPT !.current_func = [mk_sym("Func", name) EXCEPT !.is_extern = is_extern]]
           s1 == enter_scope(s0)
       IN  /\ Commit(s1)
           /\ pc' = IF s1.err = "" THEN "params" ELSE "exit"
           /\ opened' = IF s1.err = "" THEN Append(opened, Snap(Cur)) ELSE opened
           /\ fdecl' = [NoDecl EXCEPT !.existing = find_sym(Cur, name), !.count = sym_count]
    /\ ndecls' = ndecls + 1
    /\ last_left' = NoLeft
    /\ UNCHANGED <<nitems, defs>>
    /\ UNCHANGED NotSym

\* p_param: lines 1342-1357
PParam(param_name, param_type) ==
    /\ pc = "params"
    /\ nitems < MaxItems
    /\ LET s1 == IF current_func.param_count = MAX_PARAMS THEN Exit(Cur, "Too many parameters.")
                 ELSE IF ~is_scalar(param_type) THEN Exit(Cur, "Invalid parameter type.")
                 ELSE add_local(
                        [Cur EXCEPT !.current_func.param_names = Append(@, param_name),
                                    !.current_func.param_types = Append(@, param_type),
                                    !.current_func.param_count = @ + 1],
                        param_name, param_type)
       IN  /\ Commit(s1)
           /\ pc' = IF s1.err = "" THEN "params" ELSE "exit"
    /\ nitems' = nitems + 1
    /\ last_left' = NoLeft
    /\ UNCHANGED <<ndecls, opened, defs, fdecl>>
    /\ UNCHANGED NotSym

\* p_decl from `...` to the body's `{` or the closing `;`: lines 1402-1431,
\* with p_return_type (1359-1368) and p_stmt's enter_scope (1257-1258)
PFuncRest(is_variadic, ret, has_body) ==
    /\ pc = "params"
    /\ LET s0 == [Cur EXCEPT !.current_func.is_variadic = is_variadic]
           s1 == IF ret.kind # "Void" /\ ~is_scalar(ret) THEN Exit(s0, "Illegal return type.")
                 ELSE [s0 EXCEPT !.current_func.type = ret, !.current_func.defined = has_body]
           func == s1.current_func
       IN  IF ~func.is_extern /\ has_body
           THEN LET s2 == add_func(s1, func)
                    s3 == enter_scope(s2)
                IN  /\ Commit(s3)
                    /\ pc' = IF s3.err = "" THEN "body" ELSE "exit"
                    /\ opened' = IF s3.err = "" THEN Append(opened, Snap(s2)) ELSE opened
                    /\ fdecl' = IF s3.err = "" THEN fdecl ELSE Outcome(func, has_body, s3)
                    /\ last_left' = NoLeft
           ELSE LET s2 == IF has_body THEN Exit(s1, "';' expected.") ELSE s1
                    s3 == leave_scope(s2)
                    s4 == add_func(s3, func)
                    s5 == IF s4.err = "" THEN [s4 EXCEPT !.current_func = NoSym] ELSE s4
                IN  /\ Commit(s5)
                    /\ pc' = IF s5.err = "" THEN "top" ELSE "exit"
                    /\ opened' = IF s2.err = "" THEN SubSeq(opened, 1, Len(opened) - 1) ELSE opened
                    /\ last_left' = IF s2.err = "" THEN Left(s2, s3) ELSE NoLeft
                    /\ fdecl' = Outcome(func, has_body, s5)
    /\ UNCHANGED <<ndecls, nitems, defs>>
    /\ UNCHANGED NotSym

\* p_stmt, `{`: lines 1257-1258
PStmtBlock ==
    /\ pc = "body"
    /\ nitems < MaxItems
    /\ LET s1 == enter_scope(Cur)
       IN  /\ Commit(s1)
           /\ pc' = IF s1.err = "" THEN "body" ELSE "exit"
           /\ opened' = IF s1.err = "" THEN Append(opened, Snap(Cur)) ELSE opened
    /\ nitems' = nitems + 1
    /\ last_left' = NoLeft
    /\ UNCHANGED <<ndecls, defs, fdecl>>
    /\ UNCHANGED NotSym

\* p_stmt, `var NAME: type;` or `var NAME = init;` where type is the declared
\* type or the initializer's: lines 1263-1290
PStmtVar(name, type) ==
    /\ pc = "body"
    /\ nitems < MaxItems
    /\ LET s1 == IF type_size(type) = -1 THEN Exit(Cur, "Variable must have a size.")
                 ELSE add_local(Cur, name, type)
       IN  /\ Commit(s1)
           /\ pc' = IF s1.err = "" THEN "body" ELSE "exit"
    /\ nitems' = nitems + 1
    /\ last_left' = NoLeft
    /\ UNCHANGED <<ndecls, opened, defs, fdecl>>
    /\ UNCHANGED NotSym

\* p_stmt, `}`: lines 1259-1262.  The block closed at depth 2 is the
\* function's body.
PStmtEnd ==
    /\ pc = "body"
    /\ LET s1 == leave_scope(Cur)
       IN  /\ Commit(s1)
           /\ pc' = IF s1.scope_depth = 1 THEN "funcend" ELSE "body"
           /\ opened' = SubSeq(opened, 1, Len(opened) - 1)
           /\ last_left' = Left(Cur, s1)
    /\ UNCHANGED <<ndecls, nitems, defs, fdecl>>
    /\ UNCHANGED NotSym

\* p_decl after the body: lines 1421-1431
PFuncEnd ==
    /\ pc = "funcend"
    /\ LET func == current_func
           s1 == leave_scope(Cur)
           s2 == add_func(s1, func)
           s3 == IF s2.err = "" THEN [s2 EXCEPT !.current_func = NoSym] ELSE s2
       IN  /\ Commit(s3)
           /\ pc' = IF s3.err = "" THEN "top" ELSE "exit"
           /\ opened' = SubSeq(opened, 1, Len(opened) - 1)
           /\ last_left' = Left(Cur, s1)
           /\ defs' = IF s3.err = "" THEN [defs EXCEPT ![func.name] = @ + 1] ELSE defs
           /\ fdecl' = Outcome(func, TRUE, s3)
    /\ UNCHANGED <<ndecls, nitems>>
    /\ UNCHANGED NotSym

\* p_decl, `var NAME: type;`: lines 1432-1441
PDeclVar(is_extern, name, type) ==
    /\ pc = "top"
    /\ ndecls < MaxDecls
    /\ LET s1 == add_global(Cur, is_extern, name, type)
       IN  /\ Commit(s1)
           /\ pc' = IF s1.err = "" THEN "top" ELSE "exit"
    /\ ndecls' = ndecls + 1
    /\ last_left' = NoLeft
    /\ fdecl' = NoDecl
    /\ UNCHANGED <<nitems, opened, defs>>
    /\ UNCHANGED NotSym

\* p_decl, `const NAME = value;`: lines 1442-1447
PDeclConst(name, value) ==
    /\ pc = "top"
    /\ ndecls < MaxDecls
    /\ LET s1 == add_const(Cur, name, value)
       IN  /\ Commit(s1)
           /\ pc' = IF s1.err = "" THEN "top" ELSE "exit"
    /\ ndecls' = ndecls + 1
    /\ last_left' = NoLeft
    /\ fdecl' = NoDecl
    /\ UNCHANGED <<nitems, opened, defs>>
    /\ UNCHANGED NotSym

SymNext ==
    \/ \E name \in FuncNames : PDeclFunc(name, FALSE)
    \/ \E n \in ParamNames, t \in ParamTypes : PParam(n, t)
    \/ \E v \in BOOLEAN, r \in RetTypes, b \in BOOLEAN : PFuncRest(v, r, b)
    \/ PStmtBlock
    \/ \E n \in LocalNames, t \in LocalTypes : PStmtVar(n, t)
    \/ PStmtEnd
    \/ PFuncEnd
    \/ \E n \in GlobalNames : PDeclVar(FALSE, n, mk_int_type(8))
    \/ \E n \in GlobalNames : PDeclConst(n, 3)

-----------------------------------------------------------------------------
(* Parsing: deeply nested blocks *)

\* The `var` statements of a function body whose blocks nest as deep as the
\* parser lets them.
MaxLocals == 1

\* The globals after `func f() {`: p_decl has entered the parameter scope,
\* registered f and p_stmt has entered the body's scope.
AfterFuncHead ==
    LET s0 == [sym_table |-> <<>>, sym_count |-> 0, first_sym |-> [i \in 0 .. MAX_SCOPES |-> 0],
               scope_depth |-> 0, current_func |-> mk_sym("Func", "f"), err |-> "", added |-> NoAdd]
        s1 == enter_scope(s0)
        s2 == [s1 EXCEPT !.current_func.type = mk_type("Void"), !.current_func.defined = TRUE]
        s3 == add_func(s2, s2.current_func)
    IN  [top |-> [s0 EXCEPT !.current_func = NoSym], registered |-> s3, body |-> enter_scope(s3)]

ScopeInit ==
    LET s == AfterFuncHead.body
    IN  /\ sym_table = s.sym_table
        /\ sym_count = s.sym_count
        /\ first_sym = s.first_sym
        /\ scope_depth = s.scope_depth
        /\ current_func = s.current_func
        /\ pc = "body"
        /\ err = ""
        /\ ndecls = 1
        /\ nitems = 0
        /\ opened = <<Snap(AfterFuncHead.top), Snap(AfterFuncHead.registered)>>
        /\ last_left = NoLeft
        /\ defs = [n \in FuncNames |-> 0]
        /\ fdecl = [NoDecl EXCEPT !.existing = NoSym, !.count = 0]
        /\ last_add = s.added

\* p_stmt, `{`, at any depth: lines 1257-1258
PStmtNest ==
    /\ pc = "body"
    /\ LET s1 == enter_scope(Cur)
       IN  /\ Commit(s1)
           /\ pc' = IF s1.err = "" THEN "body" ELSE "exit"
           /\ opened' = IF s1.err = "" THEN Append(opened, Snap(Cur)) ELSE opened
    /\ last_left' = NoLeft
    /\ UNCHANGED <<ndecls, nitems, defs, fdecl>>
    /\ UNCHANGED NotSym

\* p_stmt, `var NAME: type;` in a nested block: lines 1263-1290
PStmtLocal(name, type) ==
    /\ pc = "body"
    /\ current_func.locals_size < 8 * MaxLocals
    /\ LET s1 == IF type_size(type) = -1 THEN Exit(Cur, "Variable must have a size.")
                 ELSE add_local(Cur, name, type)
       IN  /\ Commit(s1)
           /\ pc' = IF s1.err = "" THEN "body" ELSE "exit"
    /\ last_left' = NoLeft
    /\ UNCHANGED <<ndecls, nitems, opened, defs, fdecl>>
    /\ UNCHANGED NotSym

-----------------------------------------------------------------------------
(* Codegen *)

FP == 29
SP == 31
NoReg == 99

\* One line of assembly.  rd, rn, rm are register numbers (fp is x29, sp is
\* x31), imm an immediate or offset, note the printed comment or symbol.
Ins(op, rd, rn, rm, imm, note) ==
    [op |-> op, rd |-> rd, rn |-> rn, rm |-> rm, imm |-> imm, note |-> note]

\* The code generator's globals and its output, as one value.  abort() and
\* exit(1) set err; nothing is emitted after that.
Gen(top, labels) == [out |-> <<>>, top |-> top, labels |-> labels, err |-> ""]

Put(g, ins) == [g EXCEPT !.out = Append(g.out, ins)]

Abort(g) == IF g.err # "" THEN g ELSE [g EXCEPT !.err = "Assertion failed"]

strx(type) ==
    CASE type_size(type) = 1 -> "strb w"
      [] type_size(type) = 2 -> "strh w"
      [] type_size(type) = 4 -> "str w"
      [] type_size(type) = 8 -> "str x"
      [] OTHER -> "assert"

ldrx(type) ==
    CASE type.kind = "Bool" -> "ldrb w"
      [] type.kind = "Int" /\ type.size = 1 -> "ldrsb x"
      [] type.kind = "Int" /\ type.size = 2 -> "ldrsh x"
      [] type.kind = "Int" /\ type.size = 4 -> "ldrsw x"
      [] OTHER -> IF type_size(type) = 8 THEN "ldr x" ELSE "assert"

\* A slip emit_push could have: the limit is not checked.
emit_push_unchecked(g, reg) ==
    IF g.err # "" THEN g
    ELSE Put([g EXCEPT !.top = g.top + 8],
             Ins("str x", reg, FP, NoReg, -(FRAME_LOCALS_SIZE + g.top + 8), "push"))

emit_push(g, reg) ==
    IF g.err # "" THEN g
    ELSE IF g.top + 8 > FRAME_TEMP_SIZE THEN [g EXCEPT !.err = "Ran out of temporary space"]
    ELSE Put([g EXCEPT !.top = g.top + 8],
             Ins("str x", reg, FP, NoReg, -(FRAME_LOCALS_SIZE + g.top + 8), "push"))

emit_pop(g, reg) ==
    IF g.err # "" THEN g
    ELSE Put([g EXCEPT !.top = g.top - 8],
             Ins("ldr x", reg, FP, NoReg, -(FRAME_LOCALS_SIZE + g.top), "pop"))

\* arg_offset is the value of *arg_offset after the call's `+= 8`.
emit_arg_push(g, arg_offset, reg) ==
    IF g.err # "" THEN g
    ELSE IF arg_offset > FRAME_ARGS_SIZE THEN Abort(g)
    ELSE Put(g, Ins("str x", reg, SP, NoReg, arg_offset - 8, "arg"))

emit_sign_extend(g, source, t0, t1) ==
    IF g.err # "" THEN g
    ELSE IF ~is_scalar(source) THEN Abort(g)
    ELSE IF source.kind = "Int" /\ source.size < 8
    THEN Put(g, Ins(<<"sxtb", "sxth", "sxt_", "sxtw">>[source.size], t0, t1, NoReg, 0, ""))
    ELSE IF t0 # t1 THEN Put(g, Ins("mov", t0, t1, NoReg, 0, ""))
    ELSE g

\* The mnemonic emit_expr passes to emit_binary or emit_cmp for a kind.
BinaryOps ==
    [k \in {"_|_", "_^_", "_&_", "_<<_", "_>>_", "_+_", "_-_", "_*_", "_/_"} |->
        CASE k = "_|_" -> "orr" [] k = "_^_" -> "eor" [] k = "_&_" -> "and"
          [] k = "_<<_" -> "lsl" [] k = "_>>_" -> "lsr" [] k = "_+_" -> "add"
          [] k = "_-_" -> "sub" [] k = "_*_" -> "mul" [] k = "_/_" -> "sdiv"]

CmpOps ==
    [k \in {"_==_", "_!=_", "_<_", "_<=_", "_>_", "_>=_"} |->
        CASE k = "_==_" -> "eq" [] k = "_!=_" -> "ne" [] k = "_<_" -> "lt"
          [] k = "_<=_" -> "le" [] k = "_>_" -> "gt" [] k = "_>=_" -> "ge"]

RECURSIVE emit_expr(_, _, _)
RECURSIVE emit_lvalue(_, _, _)
RECURSIVE emit_args(_, _, _)

emit_operands(g, e, t_lhs, t_rhs) ==
    emit_pop(emit_expr(emit_push(emit_expr(g, e.args[1], t_lhs), t_lhs), e.args[2], t_rhs), t_lhs)

emit_operands_lvalue(g, e, t_lhs, t_rhs) ==
    emit_pop(emit_expr(emit_push(emit_lvalue(g, e.args[1], t_lhs), t_lhs), e.args[2], t_rhs), t_lhs)

emit_binary(g, op, e, t0) ==
    LET g1 == emit_operands(g, e, 0, 1)
    IN  IF g1.err # "" THEN g1 ELSE Put(g1, Ins(op, t0, 0, 1, 0, ""))

emit_cmp(g, rel, e, t0) ==
    LET g1 == emit_operands(g, e, 0, 1)
    IN  IF g1.err # "" THEN g1
        ELSE Put(Put(g1, Ins("cmp", NoReg, 0, 1, 0, "")), Ins("cset", t0, NoReg, NoReg, 0, rel))

emit_lvalue(g, e, t0) ==
    IF g.err # "" THEN g
    ELSE IF e.kind = "<var>" /\ e.sym.kind = "Local"
    THEN Put(g, Ins("add", t0, FP, NoReg, -e.sym.frame_offset, e.sym.name))
    ELSE IF e.kind = "<var>" /\ e.sym.kind = "Global"
    THEN IF e.sym.is_extern
         THEN Put(Put(g, Ins("adrp", t0, NoReg, NoReg, 0, "GOTPAGE")),
                  Ins("ldr x", t0, t0, NoReg, 0, "GOTPAGEOFF"))
         ELSE Put(Put(g, Ins("adrp", t0, NoReg, NoReg, 0, "PAGE")),
                  Ins("add", t0, t0, NoReg, 0, "PAGEOFF"))
    ELSE IF e.kind = "_._"
    THEN LET g1 == emit_lvalue(g, e.args[1], t0)
         IN  IF g1.err # "" THEN g1
             ELSE Put(g1, Ins("add", t0, t0, NoReg, e.args[1].type.field_offsets[e.field_index + 1], "field"))
    ELSE IF e.kind = "*_"
    THEN emit_expr(g, e.args[1], t0)
    ELSE IF e.kind = "_[_]"
    THEN LET t1 == IF t0 = 0 THEN 1 ELSE 0
             g1 == IF e.args[1].type.kind = "Ptr"
                   THEN emit_operands(g, e, t0, t1)
                   ELSE emit_operands_lvalue(g, e, t0, t1)
         IN  IF g1.err # "" THEN g1
             ELSE Put(Put(g1, Ins("lsl", t1, t1, NoReg, ilog2(type_size(e.type)), "")),
                      Ins("add", t0, t0, t1, 0, ""))
    ELSE [g EXCEPT !.err = "Not an lvalue."]

\* The call's first loop: the generator's state and the local arg_offset
\* after the iterations for arguments 1 .. n (1-based here).
emit_args(g, e, n) ==
    IF n = 0 THEN [g |-> g, arg_offset |-> 0]
    ELSE LET before == emit_args(g, e, n - 1)
         IN  IF before.g.err # "" THEN before
             ELSE LET g1 == emit_expr(before.g, e.args[n], 0)
                  IN  IF g1.err # "" THEN [g |-> g1, arg_offset |-> before.arg_offset]
                      ELSE IF n - 1 >= e.sym.param_count
                      THEN IF ~e.sym.is_variadic THEN [g |-> Abort(g1), arg_offset |-> before.arg_offset]
                           ELSE [g |-> emit_arg_push(g1, before.arg_offset + 8, 0),
                                 arg_offset |-> before.arg_offset + 8]
                      ELSE [g |-> emit_push(g1, 0), arg_offset |-> before.arg_offset]

RECURSIVE emit_pops(_, _)
\* The call's second loop: pop into x(arg_idx - 1) down to x0.
emit_pops(g, arg_idx) ==
    IF arg_idx > 0 THEN emit_pops(emit_pop(g, arg_idx - 1), arg_idx - 1) ELSE g

\* A slip the call's second loop could have: one pop per argument, variadic
\* ones included.
emit_call_pops_all_args(g, e) == emit_pops(g, e.arg_count)

emit_call_pops(g, e) == emit_pops(g, e.sym.param_count)

emit_expr(g, e, t0) ==
    IF g.err # "" THEN g
    ELSE CASE is_lvalue(e) ->
         LET g1 == emit_lvalue(g, e, t0)
         IN  IF g1.err # "" THEN g1
             ELSE IF ldrx(e.type) = "assert" THEN Abort(g1)
             ELSE Put(g1, Ins(ldrx(e.type), t0, t0, NoReg, 0, ""))
      [] e.kind = "<int>" ->
         Put(g, Ins("mov", t0, NoReg, NoReg, e.int_value, "imm"))
      [] e.kind = "<str>" ->
         LET label == g.labels + 1
             g1 == [g EXCEPT !.labels = label]
         IN  Put(Put(Put(g1, Ins(".asciz", NoReg, NoReg, NoReg, label, "")),
                     Ins("adrp", t0, NoReg, NoReg, label, "PAGE")),
                 Ins("add", t0, t0, NoReg, label, "PAGEOFF"))
      [] e.kind = "_(_)" ->
         LET ga == emit_args(g, e, e.arg_count)
         IN  IF ga.g.err # "" THEN ga.g
             ELSE LET g1 == emit_call_pops(ga.g, e)
                      g2 == Put(g1, Ins("bl", NoReg, NoReg, NoReg, 0, e.sym.name))
                  IN  IF e.type.kind # "Void" THEN emit_sign_extend(g2, e.type, t0, 0) ELSE g2
      [] e.kind = "&_" ->
         emit_lvalue(g, e.args[1], t0)
      [] e.kind \in {"!_", "~_", "-_"} ->
         LET g1 == emit_expr(g, e.args[1], t0)
             op == CASE e.kind = "!_" -> "eor" [] e.kind = "~_" -> "mvn" [] e.kind = "-_" -> "neg"
         IN  IF g1.err # "" THEN g1
             ELSE Put(g1, Ins(op, t0, t0, NoReg, IF e.kind = "!_" THEN 1 ELSE 0, ""))
      [] e.kind \in DOMAIN BinaryOps ->
         emit_binary(g, BinaryOps[e.kind], e, t0)
      [] e.kind \in DOMAIN CmpOps ->
         emit_cmp(g, CmpOps[e.kind], e, t0)
      [] e.kind = "_%_" ->
         LET t1 == IF t0 = 0 THEN 1 ELSE 0
             t2 == IF t0 = 2 THEN 1 ELSE 2
             g1 == emit_operands(g, e, t1, t2)
         IN  IF g1.err # "" THEN g1
             ELSE Put(Put(g1, Ins("sdiv", t0, t1, t2, 0, "")), Ins("msub", t0, t0, t2, t1, ""))
      [] e.kind = "_?_:_" ->
         LET label == g.labels + 1
             g1 == emit_expr(Put([g EXCEPT !.labels = label], Ins(".if", NoReg, NoReg, NoReg, label, "")),
                             e.args[1], t0)
             g2 == IF g1.err # "" THEN g1
                   ELSE emit_expr(Put(Put(g1, Ins("cmp", NoReg, t0, NoReg, 0, "")),
                                      Ins("cbz", NoReg, t0, NoReg, label, ".else")),
                                  e.args[2], t0)
             g3 == IF g2.err # "" THEN g2
                   ELSE emit_expr(Put(Put(g2, Ins("b", NoReg, NoReg, NoReg, label, ".end")),
                                      Ins(".else", NoReg, NoReg, NoReg, label, "")),
                                  e.args[3], t0)
         IN  IF g3.err # "" THEN g3 ELSE Put(g3, Ins(".end", NoReg, NoReg, NoReg, label, ""))
      [] e.kind \in {"_=_", "_+=_", "_-=_"} ->
         LET t1 == IF t0 = 0 THEN 1 ELSE 0
             t2 == IF t0 = 2 THEN 1 ELSE 2
             lhs == e.args[1]
             g1 == emit_operands_lvalue(g, e, t0, t1)
             g2 == IF g1.err # "" \/ e.kind = "_=_" THEN g1
                   ELSE IF ldrx(lhs.type) = "assert" THEN Abort(g1)
                   ELSE Put(Put(g1, Ins(ldrx(lhs.type), t2, t0, NoReg, 0, "")),
                            Ins(IF e.kind = "_+=_" THEN "add" ELSE "sub", t1, t2, t1, 0, ""))
         IN  IF g2.err # "" THEN g2
             ELSE IF strx(lhs.type) = "assert" THEN Abort(g2)
             ELSE Put(g2, Ins(strx(lhs.type), t1, t0, NoReg, 0, ""))
      [] e.kind = "<memcpy>" ->
         IF ~(e.args[1].kind = "&_" /\ e.args[2].kind = "&_") THEN Abort(g)
         ELSE LET g1 == emit_operands(g, e, 0, 1)
              IN  IF g1.err # "" THEN g1
                  ELSE Put(Put(g1, Ins("mov", 2, NoReg, NoReg, type_size(e.args[1].type.base), "imm")),
                           Ins("bl", NoReg, NoReg, NoReg, 0, "memcpy"))
      [] e.kind = "as" ->
         LET target == e.type
             source == e.args[1].type
         IN  IF ~(is_scalar(target) /\ is_scalar(source)) THEN Abort(g)
             ELSE LET g1 == emit_expr(g, e.args[1], t0)
                  IN  IF g1.err # "" THEN g1
                      ELSE IF target.kind = "Bool"
                      THEN Put(Put(g1, Ins("cmp", NoReg, t0, NoReg, 0, "")),
                               Ins("cset", t0, NoReg, NoReg, 0, "ne"))
                      ELSE IF type_size(target) < type_size(source)
                      THEN emit_sign_extend(g1, target, t0, t0)
                      ELSE g1
      [] OTHER -> Abort(g)

-----------------------------------------------------------------------------
(* Parsing expressions and statements *)

MaxNodes == 5
MaxArgs == 3
MaxLabels == 1

check_type_bool(expr) == check_type(expr, mk_bool_type)

check_type_int(expr) == expr.type.kind = "Int"

Built(e) == [ok |-> TRUE, expr |-> e, err |-> ""]

Failed(msg) == [ok |-> FALSE, expr |-> NoExpr, err |-> msg]

unify_types(lhs, rhs) ==
    LET rhs1 == try_coerce(rhs, lhs.type)
        lhs1 == try_coerce(lhs, rhs1.type)
        r == check_type(rhs1, lhs1.type)
    IN  [ok |-> r.ok, lhs |-> lhs1, rhs |-> r.expr, err |-> r.err]

build_unary_expr(op, rhs) ==
    IF op = "*_"
    THEN IF rhs.type.kind # "Ptr" THEN Failed("Pointer type expected.")
         ELSE Built(mk_expr_1("*_", rhs, rhs.type.base))
    ELSE IF op = "&_"
    THEN IF ~is_lvalue(rhs) THEN Failed("Expression is not addressable.")
         ELSE Built(mk_expr_1("&_", rhs, mk_ptr_type(rhs.type)))
    ELSE IF op = "!_"
    THEN LET r == check_type_bool(rhs)
         IN  IF ~r.ok THEN Failed(r.err) ELSE Built(mk_expr_1("!_", r.expr, r.expr.type))
    ELSE IF ~check_type_int(rhs) THEN Failed("Expected integer.")
         ELSE Built(mk_expr_1(op, rhs, rhs.type))

build_binary_expr(lhs, op, rhs) ==
    IF op \in {"_=_", "_+=_", "_-=_"}
    THEN IF ~is_lvalue(lhs) THEN Failed("Expression is not assignable.")
         ELSE IF op # "_=_" /\ ~check_type_int(lhs) THEN Failed("Expected integer.")
         ELSE LET r == check_type(rhs, lhs.type)
              IN  IF ~r.ok THEN Failed(r.err)
                  ELSE IF ~is_scalar(lhs.type)
                  THEN IF ~is_lvalue(r.expr) THEN Failed("Assertion failed")
                       ELSE Built(mk_expr_2("<memcpy>",
                                            mk_expr_1("&_", lhs, mk_ptr_type(lhs.type)),
                                            mk_expr_1("&_", r.expr, mk_ptr_type(r.expr.type)),
                                            mk_type("Void")))
                  ELSE Built(mk_expr_2(op, lhs, r.expr, lhs.type))
    ELSE IF op \in {"_&&_", "_||_"}
    THEN LET l == check_type_bool(lhs)
             r == check_type_bool(rhs)
             e == mk_expr("<int>", mk_bool_type)
         IN  IF ~l.ok THEN Failed(l.err)
             ELSE IF ~r.ok THEN Failed(r.err)
             ELSE IF op = "_&&_"
             THEN Built(mk_expr_3("_?_:_", l.expr, r.expr, [e EXCEPT !.int_value = 0], r.expr.type))
             ELSE Built(mk_expr_3("_?_:_", l.expr, [e EXCEPT !.int_value = 1], r.expr, r.expr.type))
    ELSE IF op \in {"_==_", "_!=_", "_<_", "_<=_", "_>_", "_>=_", "_<<_"}
    THEN LET u == unify_types(lhs, rhs)
         IN  IF ~u.ok THEN Failed(u.err)
             ELSE IF ~is_scalar(u.lhs.type) THEN Failed("Type is not comparable.")
             ELSE Built(mk_expr_2(op, u.lhs, u.rhs, mk_bool_type))
    ELSE IF ~check_type_int(lhs) \/ ~check_type_int(rhs) THEN Failed("Expected integer.")
         ELSE LET u == unify_types(lhs, rhs)
              IN  IF ~u.ok THEN Failed(u.err)
                  ELSE Built(mk_expr_2(op, u.lhs, u.rhs, u.lhs.type))

\* The `? :` branch of p_expr.
build_cond_expr(lhs, ift, iff) ==
    LET c == check_type_bool(lhs)
        u == unify_types(ift, iff)
    IN  IF ~c.ok THEN Failed(c.err)
        ELSE IF ~u.ok THEN Failed(u.err)
        ELSE Built(mk_expr_3("_?_:_", c.expr, u.lhs, u.rhs, u.lhs.type))

\* The `[` branch of p_expr.
build_index_expr(lhs, rhs) ==
    IF lhs.type.kind # "Arr" /\ lhs.type.kind # "Ptr" THEN Failed("Expression is not indexable.")
    ELSE IF ~check_type_int(rhs) THEN Failed("Expected integer.")
    ELSE Built(mk_expr_2("_[_]", lhs, rhs, lhs.type.base))

\* The call branch of p_expr, once the arguments are parsed.
build_call_expr(sym, args) ==
    LET n == Len(args)
        chk == [i \in 1..n |->
                   IF i <= sym.param_count THEN check_type(args[i], sym.param_types[i])
                   ELSE IF ~is_scalar(args[i].type) THEN Failed("Invalid type for variadic argument.")
                   ELSE Built(args[i])]
        bad == {i \in 1..n : ~chk[i].ok}
    IN  IF sym.kind # "Func" THEN Failed("Function expected.")
        ELSE IF n > MAX_PARAMS THEN Failed("Too many arguments provided.")
        ELSE IF n < sym.param_count THEN Failed("Not enough arguments provided")
        ELSE IF n > sym.param_count /\ ~sym.is_variadic THEN Failed("Too many arguments provided")
        ELSE IF bad # {} THEN Failed(chk[CHOOSE i \in bad : \A j \in bad : i <= j].err)
        ELSE Built([mk_expr("_(_)", sym.type) EXCEPT
                       !.sym = sym, !.args = [i \in 1..n |-> chk[i].expr], !.arg_count = n])

\* The `<var>` / named-constant branch of p_expr.
build_name_expr(sym) ==
    IF sym.kind \in {"Local", "Global"} THEN Built([mk_expr("<var>", sym.type) EXCEPT !.sym = sym])
    ELSE IF sym.kind = "Const" THEN Built([mk_expr("<int>", sym.type) EXCEPT !.int_value = sym.value])
    ELSE Failed("Variable expected.")

\* The symbols in scope while the statements are parsed:
\*   var p: *Int;  func g(a: Int, b: Int): Int;  func v(a: Int, ...): Int32;
\*   func h(a: Int, b: Int, c: Int, d: Int, e: Int, f: Int, g: Int, h: Int): Int;
\*   and, in the function being compiled, var x: Int; var a: [Int; 2];
SymX == [mk_sym("Local", "x") EXCEPT !.type = mk_int_type(8), !.frame_offset = 8]
SymA == [mk_sym("Local", "a") EXCEPT !.type = mk_arr_type(mk_int_type(8), 2), !.frame_offset = 24]
SymP == [mk_sym("Global", "p") EXCEPT !.type = mk_ptr_type(mk_int_type(8))]
FuncG ==
    [mk_sym("Func", "g") EXCEPT !.type = mk_int_type(8), !.param_count = 2,
        !.param_names = <<"a", "b">>, !.param_types = <<mk_int_type(8), mk_int_type(8)>>]
FuncV ==
    [mk_sym("Func", "v") EXCEPT !.type = mk_int_type(4), !.param_count = 1,
        !.param_names = <<"a">>, !.param_types = <<mk_int_type(8)>>, !.is_variadic = TRUE]

FuncH ==
    [mk_sym("Func", "h") EXCEPT !.type = mk_int_type(8), !.param_count = MAX_PARAMS,
        !.param_names = <<"a", "b", "c", "d", "e", "f", "g", "h">>,
        !.param_types = [i \in 1 .. MAX_PARAMS |-> mk_int_type(8)]]

EmitNames == {SymX, SymA, SymP}
EmitFuncs == {FuncG, FuncV}
EmitInts == {1}
UnaryOps == {"*_", "&_", "-_"}
BinaryKinds == {"_=_", "_+=_", "_+_", "_%_", "_<_", "_&&_"}
StmtForms == {"expr", "if", "while"}

RECURSIVE Nodes(_)
RECURSIVE NodesOf(_)
\* The nodes of an expression tree, and of a sequence of trees.
Nodes(e) == 1 + NodesOf(e.args)
NodesOf(es) == IF es = <<>> THEN 0 ELSE Nodes(Head(es)) + NodesOf(Tail(es))

RECURSIVE Labels(_)
RECURSIVE LabelsOf(_)
\* The labels emit_expr takes for an expression: one per string and per `? :`.
Labels(e) == (IF e.kind \in {"<str>", "_?_:_"} THEN 1 ELSE 0) + LabelsOf(e.args)
LabelsOf(es) == IF es = <<>> THEN 0 ELSE LabelsOf(SubSeq(es, 1, Len(es) - 1)) + Labels(es[Len(es)])

Parsing == estatus \in StmtForms

Top(k) == SubSeq(estack, Len(estack) - k + 1, Len(estack))

\* error_at, or a failed assert: the process ends.
EmitExit(msg) ==
    /\ estack' = <<>>
    /\ temp_stack_top' = 0
    /\ label_count' = 0
    /\ emitted' = <<>>
    /\ estatus' = "exit"
    /\ eerr' = msg

\* k operands are replaced by the expression built from them.
Reduce(k, r) ==
    IF ~r.ok THEN EmitExit(r.err)
    ELSE /\ estack' = Append(SubSeq(estack, 1, Len(estack) - k), r.expr)
         /\ UNCHANGED <<temp_stack_top, label_count, emitted, estatus, eerr>>

EmitInit ==
    /\ estack = <<>>
    /\ temp_stack_top = 0
    /\ label_count = 0
    /\ emitted = <<>>
    /\ estatus = "stmt"
    /\ eerr = ""

\* p_stmt up to the statement's expression: `if` and `while` take their label.
PStmtBegin(form) ==
    /\ estatus = "stmt"
    /\ form \in {"if", "while"} => label_count < MaxLabels
    /\ estatus' = form
    /\ label_count' = IF form \in {"if", "while"} THEN label_count + 1 ELSE label_count
    /\ emitted' = <<>>
    /\ UNCHANGED <<estack, temp_stack_top, eerr>>
    /\ UNCHANGED NotEmit

\* p_expr: a decimal literal
PExprInt(v) ==
    /\ Parsing
    /\ NodesOf(estack) < MaxNodes
    /\ Reduce(0, Built(int_node(mk_int_type(8), v)))
    /\ UNCHANGED NotEmit

\* p_expr: a name not followed by `(`
PExprName(sym) ==
    /\ Parsing
    /\ NodesOf(estack) < MaxNodes
    /\ Reduce(0, build_name_expr(sym))
    /\ UNCHANGED NotEmit

\* p_expr: name(arg, ...) with the n arguments parsed last
PExprCall(sym, n) ==
    /\ Parsing
    /\ Len(estack) >= n
    /\ NodesOf(estack) < MaxNodes
    /\ Reduce(n, build_call_expr(sym, Top(n)))
    /\ UNCHANGED NotEmit

\* p_expr: a prefix operator applied to the operand parsed last
PExprUnary(op) ==
    /\ Parsing
    /\ Len(estack) >= 1
    /\ NodesOf(estack) < MaxNodes
    /\ Reduce(1, build_unary_expr(op, Top(1)[1]))
    /\ UNCHANGED NotEmit

\* p_expr: lhs op rhs
PExprBinary(op) ==
    /\ Parsing
    /\ Len(estack) >= 2
    /\ NodesOf(estack) < MaxNodes
    /\ Reduce(2, build_binary_expr(Top(2)[1], op, Top(2)[2]))
    /\ UNCHANGED NotEmit

\* p_expr: lhs ? ift : iff
PExprCond ==
    /\ Parsing
    /\ Len(estack) >= 3
    /\ NodesOf(estack) < MaxNodes
    /\ Reduce(3, build_cond_expr(Top(3)[1], Top(3)[2], Top(3)[3]))
    /\ UNCHANGED NotEmit

\* p_expr: lhs[rhs]
PExprIndex ==
    /\ Parsing
    /\ Len(estack) >= 2
    /\ NodesOf(estack) < MaxNodes
    /\ Reduce(2, build_index_expr(Top(2)[1], Top(2)[2]))
    /\ UNCHANGED NotEmit

\* p_stmt from the end of the statement's expression: the condition of `if`
\* and `while` is checked to be Bool, and the expression is emitted.
PStmtEmit ==
    /\ Parsing
    /\ Len(estack) = 1
    /\ label_count + Labels(estack[1]) <= MaxLabels
    /\ LET r == IF estatus = "expr" THEN Built(estack[1]) ELSE check_type_bool(estack[1])
           g == emit_expr(Gen(temp_stack_top, label_count), r.expr, 0)
       IN  IF ~r.ok THEN EmitExit(r.err)
           ELSE IF g.err # "" THEN EmitExit(g.err)
           ELSE /\ estack' = <<>>
                /\ temp_stack_top' = g.top
                /\ label_count' = g.labels
                /\ emitted' = IF estatus = "expr" THEN g.out
                              ELSE Append(g.out, Ins("cbz", NoReg, 0, NoReg, 0, estatus))
                /\ estatus' = "stmt"
                /\ eerr' = ""
    /\ UNCHANGED NotEmit

-----------------------------------------------------------------------------
(* Parsing: deeply nested expression statements *)

\* How deep the calls of a statement's expression nest.
MaxDepth == 10

\* The innermost operand: the literal 1, or one of
\*   x + 1, 1 + x, x % 1, x = 1, x += 1, a[1], g(x, 1), v(x, 1), v(x, 1, 1)
DeepShapes == {"1", "x+E", "E+x", "x%E", "x=E", "x+=E", "a[E]", "g(x,E)", "v(x,E)", "v(x,1,E)"}

Wrap(shape, e) ==
    LET x == build_name_expr(SymX).expr
        a == build_name_expr(SymA).expr
        one == int_node(mk_int_type(8), 1)
    IN  CASE shape = "1" -> Built(e)
          [] shape = "x+E" -> build_binary_expr(x, "_+_", e)
          [] shape = "E+x" -> build_binary_expr(e, "_+_", x)
          [] shape = "x%E" -> build_binary_expr(x, "_%_", e)
          [] shape = "x=E" -> build_binary_expr(x, "_=_", e)
          [] shape = "x+=E" -> build_binary_expr(x, "_+=_", e)
          [] shape = "a[E]" -> build_index_expr(a, e)
          [] shape = "g(x,E)" -> build_call_expr(FuncG, <<x, e>>)
          [] shape = "v(x,E)" -> build_call_expr(FuncV, <<x, e>>)
          [] shape = "v(x,1,E)" -> build_call_expr(FuncV, <<x, one, e>>)

RECURSIVE Nest(_, _)
\* The expression p_expr builds for h(x, x, x, x, x, x, x, E) nested k times
\* around the innermost operand: the operand is parsed first, then the call
\* is built.
Nest(shape, k) ==
    IF k = 0 THEN Wrap(shape, int_node(mk_int_type(8), 1)).expr
    ELSE LET x == build_name_expr(SymX).expr
             operand == Nest(shape, k - 1)
         IN  IF operand = NoExpr THEN NoExpr
             ELSE build_call_expr(FuncH, <<x, x, x, x, x, x, x, operand>>).expr

\* p_stmt has parsed the statement's expression and is about to emit it.
DeepInit ==
    /\ \E shape \in DeepShapes, k \in 0 .. MaxDepth : estack = <<Nest(shape, k)>>
    /\ temp_stack_top = 0
    /\ label_count = 0
    /\ emitted = <<>>
    /\ estatus = "expr"
    /\ eerr = ""

-----------------------------------------------------------------------------
(* Parsing: p_expr over a token sequence *)

MaxToks == 5

\* The range of the C type int on the targets of the compiler.
INT_MAX == 2147483647

INT_MIN == -INT_MAX - 1

Prec_Assign == 0
Prec_Cond == 1
Prec_CondOr == 2
Prec_CondAnd == 3
Prec_BitOr == 4
Prec_BitXor == 5
Prec_BitAnd == 6
Prec_Cmp == 7
Prec_Shift == 8
Prec_Add == 9
Prec_Mul == 10
Prec_Cast == 11
Prec_Unary == 12
Prec_Postfix == 13

\* The infix operators of p_expr's loop other than assignment and `?`:
\* the precedence tested and the node kind built.
InfixOps ==
    [t \in {"||", "&&", "|", "^", "&", "==", "!=", "<", "<=", ">", ">=", "<<", ">>",
            "+", "-", "*", "/", "%"} |->
        CASE t = "||" -> <<Prec_CondOr, "_||_">> [] t = "&&" -> <<Prec_CondAnd, "_&&_">>
          [] t = "|" -> <<Prec_BitOr, "_|_">> [] t = "^" -> <<Prec_BitXor, "_^_">>
          [] t = "&" -> <<Prec_BitAnd, "_&_">> [] t = "==" -> <<Prec_Cmp, "_==_">>
          [] t = "!=" -> <<Prec_Cmp, "_!=_">> [] t = "<" -> <<Prec_Cmp, "_<_">>
          [] t = "<=" -> <<Prec_Cmp, "_<=_">> [] t = ">" -> <<Prec_Cmp, "_>_">>
          [] t = ">=" -> <<Prec_Cmp, "_>=_">> [] t = "<<" -> <<Prec_Shift, "_<<_">>
          [] t = ">>" -> <<Prec_Shift, "_>>_">> [] t = "+" -> <<Prec_Add, "_+_">>
          [] t = "-" -> <<Prec_Add, "_-_">> [] t = "*" -> <<Prec_Mul, "_*_">>
          [] t = "/" -> <<Prec_Mul, "_/_">> [] t = "%" -> <<Prec_Mul, "_%_">>]

AssignOps == [t \in {"=", "+=", "-="} |-> CASE t = "=" -> "_=_" [] t = "+=" -> "_+=_" [] t = "-=" -> "_-=_"]

PrefixOps == [t \in {"*", "&", "!", "~", "-"} |-> t \o "_"]

\* The symbols in scope while the statement is parsed: var a: Int; var b: Int;
\* var c: Int; in the function being compiled.
\* and, at top level, const M = -2147483647 + -1;
TokSyms ==
    [t \in {"a", "b", "c", "M"} |->
        IF t = "M" THEN [mk_sym("Const", t) EXCEPT !.type = mk_int_type(8), !.value = INT_MIN]
        ELSE [mk_sym("Local", t) EXCEPT !.type = mk_int_type(8),
                 !.frame_offset = CASE t = "a" -> 8 [] t = "b" -> 16 [] t = "c" -> 24]]

\* Tok_Int lexemes and what atoi makes of them.
TokInts == [t \in {"1", "2147483647"} |-> IF t = "1" THEN 1 ELSE INT_MAX]

\* Tok_Chr lexemes and their first character.
TokChrs == [t \in {"'A'"} |-> 65]

\* The token at pos; the statement's `;` follows the last one.
TokAt(toks, pos) == IF pos <= Len(toks) THEN toks[pos] ELSE ";"

Parsed(pos, e) == [pos |-> pos, expr |-> e, err |-> ""]

ParseFailed(msg) == [pos |-> 0, expr |-> NoExpr, err |-> msg]

RECURSIVE p_expr(_, _, _)
RECURSIVE p_expr_loop(_, _, _, _)
RECURSIVE p_primary(_, _, _)
RECURSIVE p_expr_built(_, _, _, _)

\* lhs = build_...(...): error_at inside the builder ends the parse, otherwise
\* the loop of p_expr goes on with the node built.
p_expr_built(toks, pos, b, max_prec) ==
    IF ~b.ok THEN ParseFailed(b.err) ELSE p_expr_loop(toks, pos, b.expr, max_prec)

\* The loop of p_expr: lhs has been parsed, the next token is at pos.
\* (`as` and `.` need p_type and struct fields and are not among the tokens.)
p_expr_loop(toks, pos, lhs, max_prec) ==
    LET t == TokAt(toks, pos)
    IN  IF t \in DOMAIN AssignOps /\ max_prec <= Prec_Assign
        THEN LET r == p_expr(toks, pos + 1, Prec_Assign + 1)
             IN  IF r.err # "" THEN r
                 ELSE p_expr_built(toks, r.pos, build_binary_expr(lhs, AssignOps[t], r.expr), max_prec)
        ELSE IF t = "?" /\ max_prec <= Prec_Cond
        THEN LET ift == p_expr(toks, pos + 1, Prec_Cond)
                 iff == p_expr(toks, ift.pos + 1, Prec_Cond)
             IN  IF ift.err # "" THEN ift
                 ELSE IF TokAt(toks, ift.pos) # ":" THEN ParseFailed("':' expected.")
                 ELSE IF iff.err # "" THEN iff
                 ELSE p_expr_built(toks, iff.pos, build_cond_expr(lhs, ift.expr, iff.expr), max_prec)
        ELSE IF t \in DOMAIN InfixOps /\ max_prec <= InfixOps[t][1]
        THEN LET r == p_expr(toks, pos + 1, InfixOps[t][1] + 1)
             IN  IF r.err # "" THEN r
                 ELSE p_expr_built(toks, r.pos, build_binary_expr(lhs, InfixOps[t][2], r.expr), max_prec)
        ELSE IF t = "[" /\ max_prec <= Prec_Postfix
        THEN LET r == p_expr(toks, pos + 1, 0)
             IN  IF r.err # "" THEN r
                 ELSE IF TokAt(toks, r.pos) # "]" THEN ParseFailed("']' expected.")
                 ELSE p_expr_built(toks, r.pos + 1, build_index_expr(lhs, r.expr), max_prec)
        ELSE Parsed(pos, lhs)

\* What a builder returned for a primary, as the result of a parse up to pos.
p_built(pos, b) == IF ~b.ok THEN ParseFailed(b.err) ELSE Parsed(pos, b.expr)

\* The primary p_expr starts with.  (Of the primaries, those whose tokens can
\* occur: parentheses, integer and character literals, names, prefix
\* operators.)
p_primary(toks, pos, max_prec) ==
    LET t == TokAt(toks, pos)
    IN  IF t = "("
        THEN LET r == p_expr(toks, pos + 1, 0)
             IN  IF r.err # "" THEN r
                 ELSE IF TokAt(toks, r.pos) # ")" THEN ParseFailed("')' expected.")
                 ELSE Parsed(r.pos + 1, r.expr)
        ELSE IF t \in DOMAIN TokInts
        THEN Parsed(pos + 1, int_node(mk_int_type(8), TokInts[t]))
        ELSE IF t \in DOMAIN TokChrs
        THEN Parsed(pos + 1, int_node(mk_int_type(1), TokChrs[t]))
        ELSE IF t \in DOMAIN TokSyms
        THEN IF TokAt(toks, pos + 1) = "(" THEN ParseFailed("Function expected.")
             ELSE p_built(pos + 1, build_name_expr(TokSyms[t]))
        ELSE IF max_prec <= Prec_Unary /\ t \in DOMAIN PrefixOps
        THEN LET r == p_expr(toks, pos + 1, Prec_Unary)
             IN  IF r.err # "" THEN r
                 ELSE p_built(r.pos, build_unary_expr(PrefixOps[t], r.expr))
        ELSE ParseFailed("Expression expected.")

\* p_expr from the token at pos: the primary, then the loop.
p_expr(toks, pos, max_prec) ==
    LET lhs == p_primary(toks, pos, max_prec)
    IN  IF lhs.err # "" THEN lhs ELSE p_expr_loop(toks, lhs.pos, lhs.expr, max_prec)

\* The tokens a statement is drawn from.
Toks == {"a", "b", "c", "1", "=", "+=", "-=", "+", "?", ":"}

RECURSIVE SeqsUpTo(_, _)
\* The sequences over S of length at most n.
SeqsUpTo(S, n) ==
    IF n = 0 THEN {<<>>}
    ELSE LET R == SeqsUpTo(S, n - 1)
         IN  R \cup {Append(q, x) : q \in {r \in R : Len(r) = n - 1}, x \in S}

ParseInit ==
    /\ ptoks \in SeqsUpTo(Toks, MaxToks)
    /\ pphase = "input"
    /\ presult = ParseFailed("")

ParseIdle ==
    /\ ptoks = <<>>
    /\ pphase = "idle"
    /\ presult = ParseFailed("")

\* p_stmt, expression statement: p_expr(0), then `;` is expected.
PStmtExpr ==
    /\ pphase = "input"
    /\ LET r == p_expr(ptoks, 1, 0)
       IN  presult' = IF r.err = "" /\ r.pos # Len(ptoks) + 1 THEN ParseFailed("';' expected.")
                      ELSE r
    /\ pphase' = "parsed"
    /\ UNCHANGED ptoks
    /\ UNCHANGED NotParse

-----------------------------------------------------------------------------
(* Parsing: constant expressions *)

MaxConstToks == 4

\* a + b and -a in the C type int: the two's-complement result, and whether
\* the exact result is out of range (undefined behaviour in C).
add_int(a, b) ==
    IF b > 0 /\ a > INT_MAX - b
    THEN [value |-> (a - INT_MAX - 1) + (b - INT_MAX - 1), overflow |-> TRUE]
    ELSE IF b < 0 /\ a < INT_MIN - b
    THEN [value |-> (a + INT_MAX + 1) + (b + INT_MAX + 1), overflow |-> TRUE]
    ELSE [value |-> a + b, overflow |-> FALSE]

neg_int(a) ==
    IF a = INT_MIN THEN [value |-> INT_MIN, overflow |-> TRUE]
    ELSE [value |-> -a, overflow |-> FALSE]

RECURSIVE const_eval(_)
\* The value returned, or the diagnostic of error_at; overflow tells that an
\* int operation on the way had no defined result.
const_eval(e) ==
    IF e.kind = "<int>" THEN [value |-> e.int_value, err |-> "", overflow |-> FALSE]
    ELSE IF e.kind = "-_"
    THEN LET a == const_eval(e.args[1])
             r == neg_int(a.value)
         IN  IF a.err # "" THEN a
             ELSE [value |-> r.value, err |-> "", overflow |-> a.overflow \/ r.overflow]
    ELSE IF e.kind = "_+_"
    THEN LET a == const_eval(e.args[1])
             b == const_eval(e.args[2])
             r == add_int(a.value, b.value)
         IN  IF a.err # "" THEN a
             ELSE IF b.err # "" THEN [b EXCEPT !.overflow = a.overflow]
             ELSE [value |-> r.value, err |-> "", overflow |-> a.overflow \/ b.overflow \/ r.overflow]
    ELSE [value |-> 0, err |-> "Constant evaluation failed.", overflow |-> FALSE]

\* What a build makes of an int overflow: the wrapped value, or a trap that
\* ends the process (-ftrapv and the like).
OverflowOutcomes == {"wrap", "trap"}

\* The tokens a constant expression is drawn from.
ConstToks == {"1", "2147483647", "'A'", "M", "-", "+", "*", "(", ")"}

ConstInit ==
    /\ ptoks \in SeqsUpTo(ConstToks, MaxConstToks)
    /\ pphase = "const"
    /\ presult = ParseFailed("")

\* p_const_expr: const_eval(p_expr(0)).  expr is the tree p_expr returned.
PConstExpr(outcome) ==
    /\ pphase = "const"
    /\ LET r == p_expr(ptoks, 1, 0)
           c == const_eval(r.expr)
       IN  presult' =
               IF r.err # "" THEN [pos |-> 0, expr |-> NoExpr, err |-> r.err, value |-> 0]
               ELSE IF c.overflow /\ outcome = "trap"
               THEN [pos |-> r.pos, expr |-> r.expr, err |-> "<signal>", value |-> 0]
               ELSE [pos |-> r.pos, expr |-> r.expr, err |-> c.err, value |-> c.value]
    /\ pphase' = "folded"
    /\ UNCHANGED ptoks
    /\ UNCHANGED NotParse

-----------------------------------------------------------------------------
(* The expression builders applied to operands of every kind *)

\* The globals var g: Int, g1: Int8, g2: Int16, g4: Int32, gb: Bool,
\* gp: *Int, ga: [Int; 2], gs: P, and the functions h(): Int, h2(): Int16.
GVar(name, type) == [mk_expr("<var>", type) EXCEPT !.sym = [mk_sym("Global", name) EXCEPT !.type = type]]

GCall(name, type) ==
    [mk_expr("_(_)", type) EXCEPT !.sym = [mk_sym("Func", name) EXCEPT !.type = type]]

BuildVars ==
    {GVar("g", mk_int_type(8)), GVar("g1", mk_int_type(1)), GVar("g2", mk_int_type(2)),
     GVar("g4", mk_int_type(4)), GVar("gb", mk_bool_type), GVar("gp", mk_ptr_type(mk_int_type(8))),
     GVar("ga", mk_arr_type(mk_int_type(8), 2)), GVar("gs", StructP)}

\* Operands as p_expr hands them to the builders: one node or more of each
\* kind p_expr makes (`1`, `'A'`, `true`, `null`, variables, calls, `g1 as Int`,
\* `g + g`, `-g`, `gb ? g : g`, `g = g`, `ga = ga`, `&g`, `*gp`, `ga[g]`, `gs.y`).
BuildExprs ==
    {int_node(mk_int_type(8), 1), int_node(mk_int_type(1), 65), int_node(mk_bool_type, 1),
     int_node(mk_ptr_type(mk_type("Void")), 0)}
      \cup BuildVars
      \cup {GCall("h", mk_int_type(8)), GCall("h2", mk_int_type(2))}
      \cup {mk_expr_1("as", GVar("g1", mk_int_type(1)), mk_int_type(8)),
            build_binary_expr(GVar("g", mk_int_type(8)), "_+_", GVar("g", mk_int_type(8))).expr,
            build_unary_expr("-_", GVar("g", mk_int_type(8))).expr,
            build_cond_expr(GVar("gb", mk_bool_type), GVar("g", mk_int_type(8)), GVar("g", mk_int_type(8))).expr,
            build_binary_expr(GVar("g", mk_int_type(8)), "_=_", GVar("g", mk_int_type(8))).expr,
            build_binary_expr(GVar("ga", mk_arr_type(mk_int_type(8), 2)), "_=_",
                              GVar("ga", mk_arr_type(mk_int_type(8), 2))).expr,
            build_unary_expr("&_", GVar("g", mk_int_type(8))).expr,
            build_unary_expr("*_", GVar("gp", mk_ptr_type(mk_int_type(8)))).expr,
            build_index_expr(GVar("ga", mk_arr_type(mk_int_type(8), 2)), GVar("g", mk_int_type(8))).expr,
            [mk_expr_1("_._", GVar("gs", StructP), mk_int_type(1)) EXCEPT !.field_index = 1]}

BuildUnaryOps == {"*_", "&_", "!_", "~_", "-_"}

BuildBinaryOps ==
    {"_=_", "_+=_", "_-=_", "_&&_", "_||_", "_==_", "_!=_", "_<_", "_<=_", "_>_", "_>=_",
     "_<<_", "_>>_", "_|_", "_^_", "_&_", "_+_", "_-_", "_*_", "_/_", "_%_"}

BuildInit ==
    /\ bop = ""
    /\ blhs \in BuildExprs
    /\ brhs \in BuildExprs
    /\ bphase = "input"
    /\ bout = Failed("")

BuildIdle ==
    /\ bop = ""
    /\ blhs = NoExpr
    /\ brhs = NoExpr
    /\ bphase = "idle"
    /\ bout = Failed("")

\* build_unary_expr(op, rhs); the left operand plays no part, so one is kept.
BUnary(op) ==
    /\ bphase = "input"
    /\ blhs = int_node(mk_int_type(8), 1)
    /\ bop' = op
    /\ bout' = build_unary_expr(op, brhs)
    /\ bphase' = "unary"
    /\ UNCHANGED <<blhs, brhs>>
    /\ UNCHANGED NotBuild

\* build_binary_expr(lhs, op, rhs)
BBinary(op) ==
    /\ bphase = "input"
    /\ bop' = op
    /\ bout' = build_binary_expr(blhs, op, brhs)
    /\ bphase' = "binary"
    /\ UNCHANGED <<blhs, brhs>>
    /\ UNCHANGED NotBuild

-----------------------------------------------------------------------------
(* Parsing: struct declarations *)

\* The first MaxMixed fields of a struct are of any of FieldTypes, the
\* fields after them of LongFieldTypes.
MaxMixed == 2

LongFieldTypes == {mk_int_type(4)}

\* The types p_type can return for a field of struct S: the built-in ones,
\* pointers, arrays, the struct P declared before, and S itself, whose
\* symbol add_type has entered before the fields are parsed (written here as
\* the struct's name alone; TypeNow follows the pointer).
FieldTypes ==
    {mk_bool_type, mk_int_type(1), mk_int_type(2), mk_int_type(4), mk_int_type(8),
     mk_ptr_type(mk_int_type(1)), mk_arr_type(mk_int_type(1), 3), mk_arr_type(mk_int_type(4), 2),
     StructP, mk_type("Void"), mk_arr_type(mk_int_type(1), 0),
     mk_struct_type("S"), mk_arr_type(mk_struct_type("S"), 2)}

FieldNames ==
    <<"a", "b", "c", "d", "e", "f", "g", "h", "i", "j", "k", "l", "m", "n", "o", "p", "q">>

RECURSIVE TypeNow(_)
\* A Type * stored earlier, read now: field_types[n] holds the pointer p_type
\* returned, and the one to S points to the struct as add_field has left it.
TypeNow(t) ==
    IF t.kind = "Struct" /\ t.name = stype.name THEN stype
    ELSE IF t.kind \in {"Arr", "Ptr"} THEN [t EXCEPT !.base = TypeNow(t.base)]
    ELSE t

\* p_decl has parsed `struct S {`.
StructInit ==
    /\ stype = mk_struct_type("S")
    /\ sphase = "fields"
    /\ serr = ""

StructIdle ==
    /\ stype = NoType
    /\ sphase = "idle"
    /\ serr = ""

\* p_decl, one turn of the field loop: lines 1454-1460
PStructField(field_type) ==
    /\ sphase = "fields"
    /\ stype.field_count < MaxMixed \/ field_type \in LongFieldTypes
    /\ LET r == add_field(stype, FieldNames[stype.field_count + 1], TypeNow(field_type))
       IN  /\ stype' = r.type
           /\ sphase' = IF r.err = "" THEN "fields" ELSE "exit"
           /\ serr' = r.err
    /\ UNCHANGED NotStruct

\* p_decl, the closing `}`: line 1454
PStructEnd ==
    /\ sphase = "fields"
    /\ sphase' = "done"
    /\ UNCHANGED <<stype, serr>>
    /\ UNCHANGED NotStruct

-----------------------------------------------------------------------------
(* Codegen: emit_expr with each target register *)

\* The locals of the function being compiled: var a: Int; var b: Int;
\* var c: Int; var d: Int8;
TargetVars ==
    {build_name_expr(TokSyms[t]).expr : t \in {"a", "b", "c"}}
      \cup {build_name_expr([mk_sym("Local", "d") EXCEPT !.type = mk_int_type(1), !.frame_offset = 32]).expr}

TargetLeaves == TargetVars \cup {int_node(mk_int_type(8), 1), int_node(mk_bool_type, 1)}

\* The operands of the outer operators.
OuterLeaves == {build_name_expr(TokSyms["a"]).expr, int_node(mk_int_type(8), 1)}

TargetUnaryOps == {"-_", "~_", "!_", "&_", "*_"}

TargetBinaryOps ==
    {"_+_", "_-_", "_*_", "_/_", "_%_", "_==_", "_!=_", "_<_", "_<=_", "_>_", "_>=_",
     "_&&_", "_||_", "_=_", "_+=_", "_-=_"}

OuterBinaryOps == {"_+_", "_%_", "_<_", "_=_", "_+=_", "_-=_"}

\* The nodes the builders return for the given operands.
BuiltOf(results) == {r.expr : r \in {x \in results : x.ok}}

UnariesOf(ops, es) == BuiltOf({build_unary_expr(op, e) : op \in ops, e \in es})

BinariesOf(ops, ls, rs) == BuiltOf({build_binary_expr(l, op, r) : l \in ls, op \in ops, r \in rs})

CallsOf(ls, rs) == BuiltOf({build_call_expr(FuncG, <<l, r>>) : l \in ls, r \in rs})

CondsOf(cs, ls, rs) == BuiltOf({build_cond_expr(c, l, r) : c \in cs, l \in ls, r \in rs})

InnerExprs ==
    TargetLeaves
      \cup UnariesOf(TargetUnaryOps, TargetLeaves)
      \cup BinariesOf(TargetBinaryOps, TargetLeaves, TargetLeaves)
      \cup CallsOf(OuterLeaves, TargetLeaves)

\* The trees emit_expr is given: one operator over leaves, or one more
\* operator, a call or a `?:` around that.
TargetExprs ==
    InnerExprs
      \cup UnariesOf(TargetUnaryOps, InnerExprs)
      \cup BinariesOf(OuterBinaryOps, OuterLeaves, InnerExprs)
      \cup BinariesOf(OuterBinaryOps, InnerExprs, OuterLeaves)
      \cup CallsOf(InnerExprs, OuterLeaves)
      \cup CondsOf(BinariesOf({"_<_"}, OuterLeaves, OuterLeaves), OuterLeaves, InnerExprs)

TargetInit ==
    /\ texpr \in TargetExprs
    /\ tt0 = 0
    /\ tcode = <<>>
    /\ tphase = "input"

TargetIdle ==
    /\ texpr = NoExpr
    /\ tt0 = 0
    /\ tcode = <<>>
    /\ tphase = "idle"

\* emit_expr(e, t0) at the start of a function body: the temp stack is
\* empty and no label has been used.
EmitExprTo(t0) ==
    /\ tphase = "input"
    /\ LET g == emit_expr(Gen(0, 0), texpr, t0)
       IN  /\ tcode' = g.out
           /\ tphase' = IF g.err # "" THEN "exit" ELSE "emitted"
    /\ tt0' = t0
    /\ UNCHANGED texpr
    /\ UNCHANGED NotTarget

-----------------------------------------------------------------------------
(* Codegen: calls with variadic arguments *)

VariadicLeaves ==
    {build_name_expr(TokSyms["a"]).expr, int_node(mk_int_type(8), 1), int_node(mk_int_type(8), 2)}

\* The calls of v with one parameter and n variadic arguments from es.
VCallsOf(ps, es, n) ==
    BuiltOf({build_call_expr(FuncV, <<p>> \o vs) : p \in ps, vs \in [1..n -> es]})

InnerCalls ==
    VCallsOf(VariadicLeaves, VariadicLeaves, 0)
      \cup VCallsOf(VariadicLeaves, VariadicLeaves, 1)
      \cup VCallsOf(VariadicLeaves, VariadicLeaves, 2)
      \cup CallsOf(VariadicLeaves, VariadicLeaves)

\* Calls over leaves, and calls with such calls among their arguments.
VariadicExprs ==
    InnerCalls
      \cup VCallsOf({int_node(mk_int_type(8), 1)}, VariadicLeaves \cup InnerCalls, 2)
      \cup VCallsOf(InnerCalls, VariadicLeaves, 1)
      \cup CallsOf(VariadicLeaves \cup InnerCalls, VariadicLeaves \cup InnerCalls)

VariadicInit ==
    /\ texpr \in VariadicExprs
    /\ tt0 = 0
    /\ tcode = <<>>
    /\ tphase = "input"

-----------------------------------------------------------------------------
(* Codegen: the address of an indexed element: SpecIndex *)

\* Element types of sizes 1, 2, 4, 8, 16 and 24.
IndexElems ==
    {mk_int_type(1), mk_int_type(2), mk_int_type(4), mk_int_type(8), StructP,
     mk_arr_type(mk_int_type(8), 3)}

\* var m: [T; 4] after the locals a, b, c and p, and var p: *T.
IndexArr(elem) ==
    [mk_sym("Local", "m") EXCEPT
        !.type = mk_arr_type(elem, 4),
        !.frame_offset = align_up(32 + type_size(mk_arr_type(elem, 4)), type_align(elem))]

IndexPtr(elem) == [mk_sym("Local", "p") EXCEPT !.type = mk_ptr_type(elem), !.frame_offset = 32]

IndexBases == BuiltOf({build_name_expr(sym) : sym \in {IndexArr(t) : t \in IndexElems} \cup {IndexPtr(t) : t \in IndexElems}})

IndexValues ==
    {int_node(mk_int_type(8), v) : v \in 0..3} \cup {build_name_expr(TokSyms["a"]).expr}

IndexesOf(ls, rs) == BuiltOf({build_index_expr(l, r) : l \in ls, r \in rs})

\* m[i], p[i], and m[i][j], p[i][j] where the element is an array.
IndexExprs ==
    IndexesOf(IndexBases, IndexValues)
      \cup IndexesOf(IndexesOf(IndexBases, IndexValues), IndexValues)

IndexInit ==
    /\ texpr \in IndexExprs
    /\ tt0 = 0
    /\ tcode = <<>>
    /\ tphase = "input"

\* emit_lvalue(e, t0) at the start of a function body.
EmitLvalueTo(t0) ==
    /\ tphase = "input"
    /\ LET g == emit_lvalue(Gen(0, 0), texpr, t0)
       IN  /\ tcode' = g.out
           /\ tphase' = IF g.err # "" THEN "exit" ELSE "emitted"
    /\ tt0' = t0
    /\ UNCHANGED texpr
    /\ UNCHANGED NotTarget

-----------------------------------------------------------------------------
(* The locals of one function: SpecFrame *)

\* The parameters and locals of one function `func f(...) { ... }`, with
\* blocks nested in its body.  The walk starts after `func f(`.
MaxFrameLocals == 3
MaxBlocks == 2

\* The n-th declaration of the function declares the n-th name.
FrameNames == <<"p", "q", "x", "y", "z">>

\* Sizes 1, 4, 16 and 120 with alignments 1, 4, 8 and 8.
FrameTypes == {mk_int_type(1), mk_int_type(4), StructP, mk_arr_type(mk_int_type(8), 15)}

FrameIdle ==
    /\ declared = <<>>
    /\ left = <<>>

\* parse_func_decl up to the parameter list: current_func is the new symbol
\* and the parameter scope is entered.
FrameInit ==
    LET s0 == [AfterFuncHead.top EXCEPT !.current_func = mk_sym("Func", "f")]
        s1 == enter_scope(s0)
    IN  /\ sym_table = s1.sym_table
        /\ sym_count = s1.sym_count
        /\ first_sym = s1.first_sym
        /\ scope_depth = s1.scope_depth
        /\ current_func = s1.current_func
        /\ pc = "params"
        /\ err = ""
        /\ ndecls = 1
        /\ nitems = 0
        /\ opened = <<Snap(AfterFuncHead.top)>>
        /\ last_left = NoLeft
        /\ defs = [n \in FuncNames |-> 0]
        /\ fdecl = [NoDecl EXCEPT !.existing = NoSym, !.count = 0]
        /\ last_add = s1.added
        /\ declared = <<>>
        /\ left = <<>>

\* What add_local has just added to the function, if it was accepted.
Declare(s1, name, type) ==
    IF s1.err # "" THEN declared
    ELSE Append(declared, [name |-> name, type |-> type,
                           frame_offset |-> s1.sym_table[s1.sym_count].frame_offset,
                           depth |-> scope_depth, closed |-> Len(left)])

\* One parameter of the parameter list.
FrameParam(param_type) ==
    /\ pc = "params"
    /\ Len(declared) < MaxFrameLocals
    /\ LET param_name == FrameNames[Len(declared) + 1]
           s1 == IF current_func.param_count = MAX_PARAMS THEN Exit(Cur, "Too many parameters.")
                 ELSE IF ~is_scalar(param_type) THEN Exit(Cur, "Invalid parameter type.")
                 ELSE add_local(
                        [Cur EXCEPT !.current_func.param_names = Append(@, param_name),
                                    !.current_func.param_types = Append(@, param_type),
                                    !.current_func.param_count = @ + 1],
                        param_name, param_type)
       IN  /\ Commit(s1)
           /\ pc' = IF s1.err = "" THEN "params" ELSE "exit"
           /\ declared' = Declare(s1, param_name, param_type)
    /\ last_left' = NoLeft
    /\ UNCHANGED <<ndecls, nitems, opened, defs, fdecl, left>>
    /\ UNCHANGED NotFrame

\* `) {`: the function is registered and the scope of its body entered.
FrameBody ==
    /\ pc = "params"
    /\ LET s1 == [Cur EXCEPT !.current_func.type = mk_type("Void"), !.current_func.defined = TRUE]
           func == s1.current_func
           s2 == add_func(s1, func)
           s3 == enter_scope(s2)
       IN  /\ Commit(s3)
           /\ pc' = IF s3.err = "" THEN "body" ELSE "exit"
           /\ opened' = IF s3.err = "" THEN Append(opened, Snap(s2)) ELSE opened
           /\ fdecl' = IF s3.err = "" THEN fdecl ELSE Outcome(func, TRUE, s3)
    /\ last_left' = NoLeft
    /\ UNCHANGED <<ndecls, nitems, defs, declared, left>>
    /\ UNCHANGED NotFrame

\* `var name: type;` in the body or in a block of it.
FrameVar(type) ==
    /\ pc = "body"
    /\ Len(declared) < MaxFrameLocals
    /\ LET name == FrameNames[Len(declared) + 1]
           s1 == IF type_size(type) = -1 THEN Exit(Cur, "Variable must have a size.")
                 ELSE add_local(Cur, name, type)
       IN  /\ Commit(s1)
           /\ pc' = IF s1.err = "" THEN "body" ELSE "exit"
           /\ declared' = Declare(s1, name, type)
    /\ last_left' = NoLeft
    /\ UNCHANGED <<ndecls, nitems, opened, defs, fdecl, left>>
    /\ UNCHANGED NotFrame

\* `{` of a block statement.
FrameBlock ==
    /\ pc = "body"
    /\ Len(left) + scope_depth - 2 < MaxBlocks
    /\ LET s1 == enter_scope(Cur)
       IN  /\ Commit(s1)
           /\ pc' = IF s1.err = "" THEN "body" ELSE "exit"
           /\ opened' = IF s1.err = "" THEN Append(opened, Snap(Cur)) ELSE opened
    /\ last_left' = NoLeft
    /\ UNCHANGED <<ndecls, nitems, defs, fdecl, declared, left>>
    /\ UNCHANGED NotFrame

\* `}` of a block statement or of the body.
FrameEnd ==
    /\ pc = "body"
    /\ LET s1 == leave_scope(Cur)
       IN  /\ Commit(s1)
           /\ pc' = IF s1.scope_depth = 1 THEN "funcend" ELSE "body"
           /\ opened' = SubSeq(opened, 1, Len(opened) - 1)
           /\ last_left' = Left(Cur, s1)
           /\ left' = Append(left, [before |-> current_func.locals_size,
                                    after |-> s1.current_func.locals_size])
    /\ UNCHANGED <<ndecls, nitems, defs, fdecl, declared>>
    /\ UNCHANGED NotFrame

-----------------------------------------------------------------------------
(* Specifications *)

EmitIdle ==
    /\ estack = <<>>
    /\ temp_stack_top = 0
    /\ label_count = 0
    /\ emitted = <<>>
    /\ estatus = "idle"
    /\ eerr = ""

Init == SymInit /\ CoerceIdle /\ EmitIdle /\ ParseIdle /\ BuildIdle /\ StructIdle /\ TargetIdle /\ FrameIdle

Next == SymNext

Spec == Init /\ [][Next]_vars

InitCoerce == SymIdle /\ CoerceInit /\ EmitIdle /\ ParseIdle /\ BuildIdle /\ StructIdle /\ TargetIdle /\ FrameIdle

NextCoerce == CoTryCoerce \/ CoCheckType \/ CoTypeLe

SpecCoerce == InitCoerce /\ [][NextCoerce]_vars

InitEmit == SymIdle /\ CoerceIdle /\ EmitInit /\ ParseIdle /\ BuildIdle /\ StructIdle /\ TargetIdle /\ FrameIdle

NextEmit ==
    \/ \E form \in StmtForms : PStmtBegin(form)
    \/ \E v \in EmitInts : PExprInt(v)
    \/ \E sym \in EmitNames : PExprName(sym)
    \/ \E sym \in EmitFuncs, n \in 0..MaxArgs : PExprCall(sym, n)
    \/ \E op \in UnaryOps : PExprUnary(op)
    \/ \E op \in BinaryKinds : PExprBinary(op)
    \/ PExprCond
    \/ PExprIndex
    \/ PStmtEmit

SpecEmit == InitEmit /\ [][NextEmit]_vars

InitParse == SymIdle /\ CoerceIdle /\ EmitIdle /\ ParseInit /\ BuildIdle /\ StructIdle /\ TargetIdle /\ FrameIdle

NextParse == PStmtExpr

SpecParse == InitParse /\ [][NextParse]_vars

InitBuild == SymIdle /\ CoerceIdle /\ EmitIdle /\ ParseIdle /\ BuildInit /\ StructIdle /\ TargetIdle /\ FrameIdle

NextBuild ==
    \/ \E op \in BuildUnaryOps : BUnary(op)
    \/ \E op \in BuildBinaryOps : BBinary(op)

SpecBuild == InitBuild /\ [][NextBuild]_vars

InitScope == ScopeInit /\ CoerceIdle /\ EmitIdle /\ ParseIdle /\ BuildIdle /\ StructIdle /\ TargetIdle /\ FrameIdle

NextScope ==
    \/ PStmtNest
    \/ \E n \in LocalNames : PStmtLocal(n, mk_int_type(8))
    \/ PStmtEnd
    \/ PFuncEnd

SpecScope == InitScope /\ [][NextScope]_vars

InitDeep == SymIdle /\ CoerceIdle /\ DeepInit /\ ParseIdle /\ BuildIdle /\ StructIdle /\ TargetIdle /\ FrameIdle

NextDeep == PStmtEmit

SpecDeep == InitDeep /\ [][NextDeep]_vars

InitStruct == SymIdle /\ CoerceIdle /\ EmitIdle /\ ParseIdle /\ BuildIdle /\ StructInit /\ TargetIdle /\ FrameIdle

NextStruct ==
    \/ \E t \in FieldTypes : PStructField(t)
    \/ PStructEnd

SpecStruct == InitStruct /\ [][NextStruct]_vars

InitConst == SymIdle /\ CoerceIdle /\ EmitIdle /\ ConstInit /\ BuildIdle /\ StructIdle /\ TargetIdle /\ FrameIdle

NextConst == \E outcome \in OverflowOutcomes : PConstExpr(outcome)

SpecConst == InitConst /\ [][NextConst]_vars

InitTarget == SymIdle /\ CoerceIdle /\ EmitIdle /\ ParseIdle /\ BuildIdle /\ StructIdle /\ TargetInit /\ FrameIdle

NextTarget == \E t0 \in 0..2 : EmitExprTo(t0)

SpecTarget == InitTarget /\ [][NextTarget]_vars

InitVariadic == SymIdle /\ CoerceIdle /\ EmitIdle /\ ParseIdle /\ BuildIdle /\ StructIdle /\ VariadicInit /\ FrameIdle

NextVariadic == \E t0 \in 0..2 : EmitExprTo(t0)

SpecVariadic == InitVariadic /\ [][NextVariadic]_vars

InitFrame == FrameInit /\ CoerceIdle /\ EmitIdle /\ ParseIdle /\ BuildIdle /\ StructIdle /\ TargetIdle

NextFrame ==
    \/ \E type \in FrameTypes : FrameParam(type)
    \/ FrameBody
    \/ \E type \in FrameTypes : FrameVar(type)
    \/ FrameBlock
    \/ FrameEnd

SpecFrame == InitFrame /\ [][NextFrame]_vars

InitIndex == SymIdle /\ CoerceIdle /\ EmitIdle /\ ParseIdle /\ BuildIdle /\ StructIdle /\ IndexInit /\ FrameIdle

NextIndex == \E t0 \in 0..2 : EmitLvalueTo(t0)

SpecIndex == InitIndex /\ [][NextIndex]_vars

-----------------------------------------------------------------------------
(* Properties *)

\* C2 (Spec): whenever leave_scope has closed a scope (a block, or a
\* function's parameter scope), sym_count and scope_depth are what they were
\* just before the matching enter_scope, and find_sym resolves every name as
\* it did then: nothing added inside the scope is found any more.
C2_ScopeHygiene == last_left.closed => last_left.restored = last_left.entered

\* C2's case: a scope that held symbols has been left.
C2_Witness == last_left.closed /\ last_left.dropped > 0 /\ pc = "body"

\* C3 (Spec): of the declarations of one function name, at most one with a
\* body is ever accepted.
C3_SingleDefinition == \A n \in FuncNames : defs[n] <= 1

\* C4 (Spec): a function declaration (well-formed in itself: distinct
\* parameter names, no body on an extern) whose name already has a global
\* Func symbol with the same signature, the two not both definitions,
\* succeeds and leaves the number of symbols as it was.
C4_SignatureMerge ==
    (fdecl.done /\ fdecl.matched /\ fdecl.wellformed)
        => (fdecl.ok /\ fdecl.count_after = fdecl.count)

\* C5 as stated (SpecCoerce): check_type(e, T) fails with a type mismatch or
\* leaves e with a type equal to T.
C5_TypeEqualOrFail ==
    cphase = "checked" =>
        IF cout.ok THEN type_eq(cout.expr.type, ctarget) ELSE cout.err = "Type mismatch"

IsVoidPtr(t) == t.kind = "Ptr" /\ t.base.kind = "Void"

\* C5 amended (SpecCoerce): check_type(e, T) fails with a type mismatch, or
\* leaves e with a type equal to T, or T is Ptr(Void) and e is left with a
\* pointer type.
C5_CoercionSound ==
    cphase = "checked" =>
        IF cout.ok
        THEN type_eq(cout.expr.type, ctarget) \/ (IsVoidPtr(ctarget) /\ cout.expr.type.kind = "Ptr")
        ELSE cout.err = "Type mismatch"

\* C5's case: check_type accepted an expression of another type by casting it.
C5_Witness ==
    /\ cphase = "checked"
    /\ cout.ok
    /\ ~type_eq(cexpr.type, ctarget)
    /\ cout.expr.kind = "as"
    /\ type_eq(cout.expr.type, ctarget)

IsNarrowing(from, to) == from.kind = "Int" /\ to.kind = "Int" /\ to.size < from.size

\* C6 (SpecCoerce): for an e of type Int(n) that is not an <int> node and a
\* target Int(m), m < n, try_coerce leaves e unchanged and check_type fails.
C6_NarrowingRejected ==
    (cexpr.kind # "<int>" /\ IsNarrowing(cexpr.type, ctarget)) =>
        /\ cphase = "coerced" => cout.expr = cexpr
        /\ cphase = "checked" => ~cout.ok

\* emit_sign_extend's sxtb / sxth / sxtw on a value v that fits C's int.
sign_extend(size, v) ==
    IF size >= 4 THEN v
    ELSE ((v + 2 ^ (8 * size - 1)) % 2 ^ (8 * size)) - 2 ^ (8 * size - 1)

\* The value the code emit_expr prints for e leaves in its register, for an
\* <int> node and for a cast of one to an integer type.
expr_value(e) ==
    IF e.kind = "<int>" THEN e.int_value
    ELSE IF type_size(e.type) < type_size(e.args[1].type)
    THEN sign_extend(e.type.size, e.args[1].int_value)
    ELSE e.args[1].int_value

Representable(v, m) == m >= 4 \/ (-(2 ^ (8 * m - 1)) <= v /\ v < 2 ^ (8 * m - 1))

\* C7 (SpecCoerce): whenever try_coerce accepts an <int> node of value v for
\* a narrower target Int(m), that is, wraps it in a cast to Int(m), v is
\* representable as a signed m-byte integer and the generated code produces v.
C7_NarrowingPreservesValue ==
    (/\ cphase = "coerced"
     /\ cexpr.kind = "<int>" /\ cexpr.type.kind = "Int"
     /\ ctarget.kind = "Int" /\ ctarget.size < cexpr.type.size
     /\ cout.expr.kind = "as")
    => (Representable(cexpr.int_value, ctarget.size) /\ expr_value(cout.expr) = cexpr.int_value)

\* The relation C8 states: scalar <= Bool, Int(n) <= Int(m) for n <= m,
\* Ptr(T) <= Ptr(Void).
StatedLe(t1, t2) ==
    \/ is_scalar(t1) /\ t2.kind = "Bool"
    \/ t1.kind = "Int" /\ t2.kind = "Int" /\ t1.size <= t2.size
    \/ t1.kind = "Ptr" /\ IsVoidPtr(t2)

\* The relation the amended C8 states: the pointer rule is Ptr(Void) <= Ptr(T).
AmendedLe(t1, t2) ==
    \/ is_scalar(t1) /\ t2.kind = "Bool"
    \/ t1.kind = "Int" /\ t2.kind = "Int" /\ t1.size <= t2.size
    \/ IsVoidPtr(t1) /\ t2.kind = "Ptr"

\* C8 as stated (SpecCoerce): type_le(t1, t2) is true exactly when t1 is
\* scalar and t2 Bool, or Int(n), Int(m) with n <= m, or t1 = Ptr(T) and
\* t2 = Ptr(Void).
C8_StatedRelation == cphase = "compared" => (cout.ok <=> StatedLe(cexpr.type, ctarget))

\* C8 amended (SpecCoerce): type_le(t1, t2) is true exactly when t1 is scalar
\* and t2 Bool, or Int(n), Int(m) with n <= m, or t1 = Ptr(Void) and
\* t2 = Ptr(T) for any T; so Ptr(Void) <= Ptr(T) for every T, and
\* Ptr(T) <= Ptr(Void) only for T = Void.
C8_TypeLe ==
    cphase = "compared" =>
        /\ cout.ok <=> AmendedLe(cexpr.type, ctarget)
        /\ (IsVoidPtr(cexpr.type) /\ ctarget.kind = "Ptr") => cout.ok
        /\ (cexpr.type.kind = "Ptr" /\ ~IsVoidPtr(cexpr.type) /\ IsVoidPtr(ctarget)) => ~cout.ok

\* C8's case: type_le has compared Ptr(Void) with a pointer to something else.
C8_Witness ==
    /\ cphase = "compared"
    /\ IsVoidPtr(cexpr.type)
    /\ ctarget.kind = "Ptr"
    /\ ~IsVoidPtr(ctarget)
    /\ cout.ok

LiveLocals == {i \in 1 .. sym_count : sym_table[i].kind = "Local"}

\* C9 (Spec): every local's frame_offset satisfies 0 < frame_offset <= 128.
C9_FrameOffsets ==
    \A i \in LiveLocals :
        0 < sym_table[i].frame_offset /\ sym_table[i].frame_offset <= FRAME_LOCALS_SIZE

\* C10 (Spec): every Local symbol ever added has a type of positive size.
C10_PositiveSize == \A i \in LiveLocals : type_size(sym_table[i].type) > 0

Pushes(code) == {i \in 1..Len(code) : code[i].note = "push"}

RECURSIVE Matched(_, _, _)
\* Reading code from instruction i with the slots in `open` pushed and not
\* yet popped: each pop reads the slot of the latest open push, and none is
\* left open at the end.
Matched(code, i, open) ==
    IF i > Len(code) THEN open = <<>>
    ELSE IF code[i].note = "push" THEN Matched(code, i + 1, Append(open, code[i].imm))
    ELSE IF code[i].note = "pop"
    THEN /\ open # <<>>
         /\ open[Len(open)] = code[i].imm
         /\ Matched(code, i + 1, SubSeq(open, 1, Len(open) - 1))
    ELSE Matched(code, i + 1, open)

\* C1 (SpecEmit): while the compiler runs, temp_stack_top is 0 at every
\* statement boundary and while a statement's expression is parsed (so it is
\* 0 immediately before the statement is emitted and again after), and in the
\* code of each statement emitted every push is matched by exactly one later
\* pop of the same slot.
C1_TempStackBalance ==
    estatus \in StmtForms \cup {"stmt"} => temp_stack_top = 0 /\ Matched(emitted, 1, <<>>)

\* C1's case: a statement has been emitted whose code holds two pushes and
\* passes a variadic argument next to a pushed positional one.
C1_Witness ==
    /\ estatus = "stmt"
    /\ Cardinality(Pushes(emitted)) >= 2
    /\ \E i \in 1..Len(emitted) : emitted[i].note = "arg"

\* The scope the live symbol at (1-based) index i belongs to: the deepest
\* open scope that began at or before it.
ScopeOf(i) ==
    CHOOSE d \in 0 .. scope_depth :
        /\ first_sym[d] <= i - 1
        /\ \A e \in 0 .. scope_depth : first_sym[e] <= i - 1 => e <= d

\* C11 (Spec): no two live symbols of one scope have the same name; an
\* add_sym of a name already present in the current scope fails with
\* 'Symbol already defined'; an add_sym of a name not present in the current
\* scope (present in an enclosing one or nowhere) succeeds, and find_sym
\* then returns the symbol just added.
C11_UniquePerScope ==
    /\ \A i, j \in 1 .. sym_count :
          (i # j /\ ScopeOf(i) = ScopeOf(j)) => sym_table[i].name # sym_table[j].name
    /\ last_add.tried =>
          /\ last_add.dup => (~last_add.ok /\ err = "Symbol already defined")
          /\ ~last_add.dup => (last_add.ok /\ last_add.found)

\* C11's case: a name present in an enclosing scope only has been added to
\* the current scope, and both symbols are live.
C11_Witness ==
    /\ last_add.tried /\ last_add.outer /\ last_add.ok /\ last_add.found
    /\ Cardinality({i \in 1 .. sym_count : sym_table[i].name = last_add.name}) >= 2

IsAssignChain(toks) ==
    /\ Len(toks) = 5
    /\ toks[1] \in DOMAIN TokSyms /\ toks[3] \in DOMAIN TokSyms /\ toks[5] \in DOMAIN TokSyms
    /\ toks[2] \in DOMAIN AssignOps /\ toks[4] \in DOMAIN AssignOps

VarOf(t) == build_name_expr(TokSyms[t]).expr

\* C12 (SpecParse): the statement `x op1 y op2 z;` with variables x, y, z
\* and op1, op2 among `=`, `+=`, `-=` is accepted and parsed as
\* x op1 (y op2 z).
C12_RightAssociative ==
    (pphase = "parsed" /\ IsAssignChain(ptoks)) =>
        /\ presult.err = ""
        /\ presult.expr =
             build_binary_expr(VarOf(ptoks[1]), AssignOps[ptoks[2]],
                 build_binary_expr(VarOf(ptoks[3]), AssignOps[ptoks[4]], VarOf(ptoks[5])).expr).expr

\* The diagnostics written with fprintf(stderr, ...) and exit(1), not
\* through error_at: they carry no line:col.
PlainDiagnostics ==
    {"Too many fields", "Maximum scope depth reached", "Ran out of local variable space",
     "Ran out of temporary space"}

\* How the process ends for a diagnostic: error_at and the fprintf sites call
\* exit(1); a failed assert calls abort(), which ends the process by SIGABRT
\* with no diagnostic of the compiler's own.
Termination(msg) ==
    [position |-> msg \notin PlainDiagnostics \cup {"Assertion failed"},
     status |-> IF msg = "Assertion failed" THEN "SIGABRT" ELSE "exit 1"]

\* C13 (SpecEmit): whenever the compilation has failed, its diagnostic
\* carries a source position and the process has terminated with status 1.
C13_UniformErrorOutcome ==
    \A msg \in {err, eerr} :
        msg # "" => (Termination(msg).position /\ Termination(msg).status = "exit 1")

ArithmeticOps == {"_>>_", "_|_", "_^_", "_&_", "_+_", "_-_", "_*_", "_/_", "_%_"}

IsOperand(e) == e.kind # "<int>" /\ e.type.kind = "Int"

\* The operand e as the result should hold it when the other operand has
\* type `other`: cast to it when narrower, untouched otherwise.
Widened(e, other) ==
    IF e.type.size < other.size THEN mk_expr_1("as", e, other) ELSE e

\* C14 (SpecBuild): an arithmetic operator applied to non-literal operands
\* of types Int(n) and Int(m) is accepted; the result type is Int(max(n, m)),
\* the narrower operand is cast to it and the wider one is left as it was.
C14_ArithmeticResultType ==
    (bphase = "binary" /\ bop \in ArithmeticOps /\ IsOperand(blhs) /\ IsOperand(brhs)) =>
        /\ bout.ok
        /\ bout.expr.type =
             mk_int_type(IF blhs.type.size >= brhs.type.size THEN blhs.type.size ELSE brhs.type.size)
        /\ bout.expr.args = <<Widened(blhs, brhs.type), Widened(brhs, blhs.type)>>

LvalueKinds == {"<var>", "*_", "_[_]", "_._"}

\* C18 (SpecBuild): is_lvalue(x) is true exactly for the kinds <var>, *_,
\* _[_] and _._; build_unary_expr("&_", x) succeeds exactly for those, with
\* a `&_` node of type Ptr(x.type) over x, and fails with 'Expression is not
\* addressable.' for every other kind.
C18_LvalueClosure ==
    /\ bphase # "idle" => (is_lvalue(brhs) <=> brhs.kind \in LvalueKinds)
    /\ (bphase = "unary" /\ bop = "&_") =>
          IF brhs.kind \in LvalueKinds
          THEN bout.ok /\ bout.expr = mk_expr_1("&_", brhs, mk_ptr_type(brhs.type))
          ELSE ~bout.ok /\ bout.err = "Expression is not addressable."

\* C18's case: the address of an index expression has been built.
C18_Witness == bphase = "unary" /\ bop = "&_" /\ brhs.kind = "_[_]" /\ bout.ok

\* C15 (SpecScope, Spec): enter_scope succeeds whenever the resulting depth is
\* at most MAX_SCOPES = 16 and fails with "Maximum scope depth reached" only
\* when the depth would exceed 16; scope_depth stays an index of first_sym.
\* (opened holds one snapshot per open scope, so at a refused enter_scope
\* its length is the depth the call was made at.)
C15_ScopeDepthLimit ==
    /\ scope_depth \in 0 .. MAX_SCOPES
    /\ err = "Maximum scope depth reached" => Len(opened) + 1 > MAX_SCOPES

RECURSIVE Need(_)
RECURSIVE NeedOfArgs(_, _)
\* The temp slots in use at once while an expression is evaluated: an
\* operator holds its left operand in a slot while the right one is
\* evaluated, a call holds each declared parameter's argument until all
\* arguments are evaluated.
Need(e) ==
    IF e.kind = "_(_)" THEN NeedOfArgs(e, e.arg_count)
    ELSE IF Len(e.args) = 2
    THEN LET l == Need(e.args[1])
             r == 1 + Need(e.args[2])
         IN  IF l >= r THEN l ELSE r
    ELSE IF Len(e.args) = 1 THEN Need(e.args[1])
    ELSE 0

\* The most slots in use while arguments 1 .. n are evaluated and stored.
NeedOfArgs(e, n) ==
    LET held(i) == IF i <= e.sym.param_count THEN i ELSE e.sym.param_count
    IN  IF n = 0 THEN 0
        ELSE LET before == NeedOfArgs(e, n - 1)
                 here == held(n - 1) + Need(e.args[n])
                 after == held(n)
                 m == IF here >= after THEN here ELSE after
             IN  IF before >= m THEN before ELSE m

\* Every temp slot the code touches lies in [fp - 640, fp - 128), below the
\* locals [fp - 128, fp); every outgoing-argument slot in [sp, sp + 64),
\* which is [fp - 704, fp - 640) as sp = fp - FRAME_SIZE.
SlotsInRegion(code) ==
    \A i \in 1 .. Len(code) :
        LET ins == code[i]
        IN  /\ ins.note \in {"push", "pop"} =>
                  /\ ins.rn = FP
                  /\ (-ins.imm - FRAME_LOCALS_SIZE) % 8 = 0
                  /\ (-ins.imm - FRAME_LOCALS_SIZE) \in 8 .. FRAME_TEMP_SIZE
                  /\ -(FRAME_LOCALS_SIZE + FRAME_TEMP_SIZE) <= ins.imm
                  /\ ins.imm + 8 <= -FRAME_LOCALS_SIZE
            /\ ins.note = "arg" =>
                  /\ ins.rn = SP
                  /\ -FRAME_SIZE <= ins.imm - FRAME_SIZE
                  /\ ins.imm - FRAME_SIZE + 8 <= -(FRAME_LOCALS_SIZE + FRAME_TEMP_SIZE)
            /\ (ins.op = "add" /\ ins.rn = FP) =>
                  -FRAME_LOCALS_SIZE <= ins.imm /\ ins.imm < 0

C16_Step ==
    (estatus = "expr" /\ estatus' # "expr") =>
        /\ (8 * Need(estack[1]) > FRAME_TEMP_SIZE) <=> (eerr' = "Ran out of temporary space")
        /\ temp_stack_top' % 8 = 0
        /\ temp_stack_top' \in 0 .. FRAME_TEMP_SIZE
        /\ SlotsInRegion(emitted')

\* C16 (SpecDeep): temp_stack_top is a multiple of 8 within 0..512; a
\* statement whose expression needs more than 512 bytes of temp slots ends
\* the process with "Ran out of temporary space", and no other does; every
\* push and pop addresses a slot inside [fp-640, fp-128), apart from the
\* locals [fp-128, fp) and the outgoing arguments [sp, sp+64) = [fp-704, fp-640).
C16_TempStackBound == [][C16_Step]_vars

\* C16's case: a statement has been emitted that used the deepest temp slot,
\* the one at fp - 640.
C16_Witness ==
    /\ estatus = "stmt"
    /\ \E i \in 1 .. Len(emitted) :
          emitted[i].note = "push" /\ emitted[i].imm = -(FRAME_LOCALS_SIZE + FRAME_TEMP_SIZE)

\* The bytes [offset, offset + size) of field i of the struct being declared.
FieldBytes(i) ==
    stype.field_offsets[i] .. stype.field_offsets[i] + type_size(TypeNow(stype.field_types[i])) - 1

\* unpadded_size as it was before the i-th add_field call.
UnpaddedBefore(i) ==
    IF i = 1 THEN 0 ELSE stype.field_offsets[i - 1] + type_size(stype.field_types[i - 1])

\* C17 (SpecStruct): after any sequence of add_field calls whose field types
\* had a positive size, each field's offset is the smallest multiple of its
\* alignment not below the unpadded size before the call, the byte ranges of
\* distinct fields do not overlap, the struct never has more than 16 fields
\* (the 17th call ends the process with "Too many fields"), and type_size of
\* the struct is align_up(unpadded_size, 8); P = { x: Int, y: Int8 } has x at
\* 0, y at 8, unpadded size 9 and size 16.
C17_StructLayout ==
    LET n == stype.field_count
    IN  (sphase # "idle" /\ \A i \in 1 .. n : type_size(stype.field_types[i]) > 0) =>
            /\ \A i \in 1 .. n :
                  LET off == stype.field_offsets[i]
                      al == type_align(stype.field_types[i])
                  IN  off % al = 0 /\ off >= UnpaddedBefore(i) /\ off - al < UnpaddedBefore(i)
            /\ \A i, j \in 1 .. n : i # j => FieldBytes(i) \cap FieldBytes(j) = {}
            /\ n <= MAX_FIELDS
            /\ sphase = "exit" => (n = MAX_FIELDS /\ serr = "Too many fields")
            /\ n > 0 => type_size(stype) = align_up(stype.unpadded_size, 8)
            /\ StructP.field_offsets = <<0, 8>> /\ StructP.unpadded_size = 9 /\ type_size(StructP) = 16
RECURSIVE OnlyConstKinds(_)
\* The tree is built only from <int> nodes, unary -_ and binary _+_.
OnlyConstKinds(e) ==
    \/ e.kind = "<int>"
    \/ e.kind = "-_" /\ OnlyConstKinds(e.args[1])
    \/ e.kind = "_+_" /\ OnlyConstKinds(e.args[1]) /\ OnlyConstKinds(e.args[2])

\* An integer v written as <<q, r>> with v = q * 65536 + r and 0 <= r < 65536.
Big(v) == <<v \div 65536, v % 65536>>

RECURSIVE IntegerValue(_)
\* The integer a tree of <int>, -_ and _+_ denotes, written as Big does.
IntegerValue(e) ==
    IF e.kind = "<int>" THEN Big(e.int_value)
    ELSE IF e.kind = "-_"
    THEN LET a == IntegerValue(e.args[1])
         IN  IF a[2] = 0 THEN <<-a[1], 0>> ELSE <<-a[1] - 1, 65536 - a[2]>>
    ELSE LET a == IntegerValue(e.args[1])
             b == IntegerValue(e.args[2])
             lo == a[2] + b[2]
         IN  <<a[1] + b[1] + lo \div 65536, lo % 65536>>

\* C19: const_eval returns the integer value of any tree built only from
\* <int> nodes, unary -_ and binary _+_, and fails with 'Constant evaluation
\* failed.' as soon as the tree holds a node of any other kind, a cast
\* inserted by the coercion of the operands included (1 + 'A').
C19_ConstantFolding ==
    pphase = "folded" /\ presult.expr # NoExpr =>
        /\ OnlyConstKinds(presult.expr) =>
               presult.err = "" /\ Big(presult.value) = IntegerValue(presult.expr)
        /\ ~OnlyConstKinds(presult.expr) => presult.err = "Constant evaluation failed."
        /\ ptoks = <<"1", "+", "'A'">> => presult.err = "Constant evaluation failed."

\* What follows gives the emitted code a meaning: a machine with the
\* registers x0..x2, fp and sp and a memory of variables and temp slots.
\* The frame starts at FrameBase; a, b, c, d hold 5, 7, 11, 3.
FrameBase == 4096

InitialMemory == (FrameBase - 8 :> 5) @@ (FrameBase - 16 :> 7) @@ (FrameBase - 24 :> 11) @@ (FrameBase - 32 :> 3)

\* What a called function leaves in the caller-saved registers it used.
Clobbered == -999

\* The function g, for the check: g(x, y) = 2 * x - y.
CallG(x, y) == 2 * x - y

\* The variadic function v, for the check: v(x, ...) = 3 * x + 1.  It leaves
\* the caller's outgoing slots as they are.
CallV(x) == 3 * x + 1

Machine0 ==
    [r |-> [i \in {0, 1, 2, FP, SP} |-> IF i = FP THEN FrameBase ELSE IF i = SP THEN FrameBase - FRAME_SIZE ELSE Clobbered],
     mem |-> InitialMemory, cmp |-> <<0, 0>>, ok |-> TRUE, calls |-> <<>>]

\* v truncated to bits bits and sign-extended (registers hold the model's
\* integers; nothing in the check reaches 32 bits).
SignExtend(v, bits) ==
    IF bits >= 32 THEN v ELSE ((v + 2 ^ (bits - 1)) % (2 ^ bits)) - 2 ^ (bits - 1)

SetReg(m, rd, v) == [m EXCEPT !.r = [@ EXCEPT ![rd] = v]]

Stuck(m) == [m EXCEPT !.ok = FALSE]

Load(m, rd, addr) == IF addr \in DOMAIN m.mem THEN SetReg(m, rd, m.mem[addr]) ELSE Stuck(m)

Store(m, addr, v) == [m EXCEPT !.mem = [a \in DOMAIN m.mem \cup {addr} |-> IF a = addr THEN v ELSE m.mem[a]]]

Holds(rel, x, y) ==
    CASE rel = "eq" -> x = y [] rel = "ne" -> x # y [] rel = "lt" -> x < y
      [] rel = "le" -> x <= y [] rel = "gt" -> x > y [] rel = "ge" -> x >= y

\* One instruction other than a branch; calls keeps the registers and the
\* memory each `bl` found.  An instruction the machine does not
\* know leaves it stuck.
Step(m, i) ==
    LET rn == IF i.rn = NoReg THEN 0 ELSE m.r[i.rn]
        rm == IF i.rm = NoReg THEN i.imm ELSE m.r[i.rm]
    IN  CASE i.op \in {".if", ".else", ".end"} -> m
          [] i.op = "mov" /\ i.note = "imm" -> SetReg(m, i.rd, i.imm)
          [] i.op = "mov" /\ i.note = "" -> SetReg(m, i.rd, rn)
          [] i.op = "add" /\ i.note \notin {"PAGEOFF"} -> SetReg(m, i.rd, rn + rm)
          [] i.op = "sub" -> SetReg(m, i.rd, rn - rm)
          [] i.op = "mul" -> SetReg(m, i.rd, rn * rm)
          [] i.op = "sdiv" -> SetReg(m, i.rd, IF rm = 0 THEN 0 ELSE CDiv(rn, rm))
          [] i.op = "msub" -> SetReg(m, i.rd, m.r[i.imm] - rn * m.r[i.rm])
          [] i.op = "neg" -> SetReg(m, i.rd, -rn)
          [] i.op = "mvn" -> SetReg(m, i.rd, -rn - 1)
          [] i.op = "eor" /\ i.rm = NoReg /\ rn \in {0, 1} -> SetReg(m, i.rd, 1 - rn)
          [] i.op = "lsl" /\ i.rm = NoReg -> SetReg(m, i.rd, rn * 2 ^ i.imm)
          [] i.op = "sxtb" -> SetReg(m, i.rd, SignExtend(rn, 8))
          [] i.op = "sxth" -> SetReg(m, i.rd, SignExtend(rn, 16))
          [] i.op = "sxtw" -> SetReg(m, i.rd, SignExtend(rn, 32))
          [] i.op = "cmp" -> [m EXCEPT !.cmp = <<rn, rm>>]
          [] i.op = "cset" -> SetReg(m, i.rd, IF Holds(i.note, m.cmp[1], m.cmp[2]) THEN 1 ELSE 0)
          [] i.op \in {"ldr x", "ldrsw x", "ldrsh x", "ldrsb x", "ldrb w"} -> Load(m, i.rd, rn + i.imm)
          [] i.op = "str x" -> Store(m, rn + i.imm, m.r[i.rd])
          [] i.op = "str w" -> Store(m, rn + i.imm, SignExtend(m.r[i.rd], 32))
          [] i.op = "strh w" -> Store(m, rn + i.imm, SignExtend(m.r[i.rd], 16))
          [] i.op = "strb w" -> Store(m, rn + i.imm, SignExtend(m.r[i.rd], 8))
          [] i.op = "bl" /\ i.note \in {"g", "v"} ->
             [m EXCEPT !.r = [@ EXCEPT ![0] = IF i.note = "g" THEN CallG(m.r[0], m.r[1]) ELSE CallV(m.r[0]),
                                       ![1] = Clobbered, ![2] = Clobbered],
                       !.calls = Append(@, [name |-> i.note, r |-> m.r, mem |-> m.mem])]
          [] OTHER -> Stuck(m)

\* Where a branch to the label goes.
LabelAt(code, kind, label) == CHOOSE k \in 1..Len(code) : code[k].op = kind /\ code[k].imm = label

RECURSIVE Exec(_, _, _)
\* The machine after the code from position at onwards has run.
Exec(code, at, m) ==
    IF at > Len(code) \/ ~m.ok THEN m
    ELSE LET i == code[at]
         IN  IF i.op = "cbz"
             THEN Exec(code, IF m.r[i.rn] = 0 THEN LabelAt(code, i.note, i.imm) ELSE at + 1, m)
             ELSE IF i.op = "b" THEN Exec(code, LabelAt(code, i.note, i.imm), m)
             ELSE Exec(code, at + 1, Step(m, i))

\* The value of an expression of the language and the memory after its
\* side effects; operands left to right, `+=` reads its target after the
\* right operand, a store keeps the bits that fit the target.
Val(v, mem) == [ok |-> TRUE, v |-> v, mem |-> mem]

NoVal == [ok |-> FALSE, v |-> 0, mem |-> InitialMemory]

Fits(v, type) == IF type.kind = "Int" THEN SignExtend(v, 8 * type.size) ELSE v

RECURSIVE ValueOf(_, _)
RECURSIVE AddressOf(_, _)

AddressOf(e, mem) ==
    IF e.kind = "<var>" /\ e.sym.kind = "Local" THEN Val(FrameBase - e.sym.frame_offset, mem)
    ELSE IF e.kind = "*_" THEN ValueOf(e.args[1], mem)
    ELSE NoVal

ArithOf(kind, x, y) ==
    CASE kind = "_+_" -> Val(x + y, <<>>) [] kind = "_-_" -> Val(x - y, <<>>)
      [] kind = "_*_" -> Val(x * y, <<>>)
      [] kind = "_/_" -> IF y = 0 THEN NoVal ELSE Val(CDiv(x, y), <<>>)
      [] kind = "_%_" -> IF y = 0 THEN NoVal ELSE Val(x - CDiv(x, y) * y, <<>>)
      [] kind = "_+=_" -> Val(x + y, <<>>) [] kind = "_-=_" -> Val(x - y, <<>>)
      [] kind = "_=_" -> Val(y, <<>>)
      [] kind \in DOMAIN CmpOps -> Val(IF Holds(CmpOps[kind], x, y) THEN 1 ELSE 0, <<>>)
      [] OTHER -> NoVal

ValueOf(e, mem) ==
    IF is_lvalue(e)
    THEN LET a == AddressOf(e, mem)
         IN  IF ~a.ok \/ a.v \notin DOMAIN a.mem THEN NoVal ELSE Val(a.mem[a.v], a.mem)
    ELSE IF e.kind = "<int>" THEN Val(e.int_value, mem)
    ELSE IF e.kind = "&_" THEN AddressOf(e.args[1], mem)
    ELSE IF e.kind \in {"-_", "~_", "!_", "as"}
    THEN LET x == ValueOf(e.args[1], mem)
         IN  IF ~x.ok THEN NoVal
             ELSE Val(CASE e.kind = "-_" -> -x.v
                        [] e.kind = "~_" -> -x.v - 1
                        [] e.kind = "!_" -> IF x.v = 0 THEN 1 ELSE 0
                        [] e.kind = "as" -> IF e.type.kind = "Bool" THEN (IF x.v = 0 THEN 0 ELSE 1)
                                            ELSE Fits(x.v, e.type),
                      x.mem)
    ELSE IF e.kind \in {"_=_", "_+=_", "_-=_"}
    THEN LET a == AddressOf(e.args[1], mem)
             y == ValueOf(e.args[2], a.mem)
             r == ArithOf(e.kind, y.mem[a.v], y.v)
             stored == Fits(r.v, e.args[1].type)
         IN  IF ~a.ok \/ ~y.ok \/ a.v \notin DOMAIN y.mem THEN NoVal
             ELSE Val(stored, [y.mem EXCEPT ![a.v] = stored])
    ELSE IF e.kind = "_?_:_"
    THEN LET c == ValueOf(e.args[1], mem)
         IN  IF ~c.ok THEN NoVal
             ELSE IF c.v # 0 THEN ValueOf(e.args[2], c.mem) ELSE ValueOf(e.args[3], c.mem)
    ELSE IF e.kind = "_(_)" /\ e.sym.name = "g"
    THEN LET x == ValueOf(e.args[1], mem)
             y == ValueOf(e.args[2], x.mem)
         IN  IF ~x.ok \/ ~y.ok THEN NoVal ELSE Val(CallG(x.v, y.v), y.mem)
    ELSE IF e.kind = "_(_)" /\ e.sym.name = "v"
    THEN LET x == ValueOf(e.args[1], mem)
         IN  IF ~x.ok THEN NoVal ELSE Val(Fits(CallV(x.v), e.type), x.mem)
    ELSE LET x == ValueOf(e.args[1], mem)
             y == ValueOf(e.args[2], x.mem)
             r == ArithOf(e.kind, x.v, y.v)
         IN  IF Len(e.args) # 2 \/ ~x.ok \/ ~y.ok \/ ~r.ok THEN NoVal ELSE Val(r.v, y.mem)

\* C20: for every value-producing kind of expression and every target t0 in
\* {0, 1, 2}, the code emitted by emit_expr(e, t0) leaves the value of e in
\* register x<t0>; for an assignment that is the value stored, so that
\* a = (b = c) stores the value of c into a.
C20_TargetRegister ==
    tphase = "emitted" =>
        LET m == Exec(tcode, 1, Machine0)
            v == ValueOf(texpr, InitialMemory)
        IN  m.ok /\ v.ok =>
                /\ m.r[tt0] = v.v
                /\ (texpr.kind = "_=_" /\ texpr.args[2].kind = "_=_"
                        /\ texpr.args[1].kind = "<var>" /\ texpr.args[1].sym.name = "a"
                        /\ texpr.args[2].args[2].kind = "<var>" /\ texpr.args[2].args[2].sym.name = "c"
                      => m.mem[FrameBase - 8] = InitialMemory[FrameBase - 24])

RECURSIVE CallLog(_)
RECURSIVE CallLogOfArgs(_, _)
\* The calls an expression makes, in the order they are made, each with the
\* values of its arguments (the expressions here have no side effects).
CallLogOfArgs(e, n) ==
    IF n = 0 THEN <<>> ELSE CallLogOfArgs(e, n - 1) \o CallLog(e.args[n])

CallLog(e) ==
    IF e.kind = "_(_)"
    THEN Append(CallLogOfArgs(e, e.arg_count),
                [name |-> e.sym.name, param_count |-> e.sym.param_count,
                 vals |-> [k \in 1..e.arg_count |-> ValueOf(e.args[k], InitialMemory).v]])
    ELSE CallLogOfArgs(e, Len(e.args))

\* C21: at the `bl` of every call with variadic arguments, each outgoing slot
\* [sp, #8k] holds the value of that call's k-th variadic argument; a later
\* argument, a nested call with variadic arguments included, overwrites none.
C21_VariadicSlots ==
    tphase = "emitted" =>
        LET m == Exec(tcode, 1, Machine0)
            log == CallLog(texpr)
        IN  m.ok =>
                /\ Len(m.calls) = Len(log)
                /\ \A j \in 1..Len(log) :
                       /\ m.calls[j].name = log[j].name
                       /\ \A k \in 1..(Len(log[j].vals) - log[j].param_count) :
                              LET slot == m.calls[j].r[SP] + 8 * (k - 1)
                              IN  /\ slot \in DOMAIN m.calls[j].mem
                                  /\ m.calls[j].mem[slot] = log[j].vals[log[j].param_count + k]

IndexMemory == [InitialMemory EXCEPT ![FrameBase - 32] = 2048]

RECURSIVE IndexAddress(_)
\* The address of a[i]: base + i * type_size(T), the base being the address
\* of an array or the value of a pointer.
IndexAddress(e) ==
    IF e.kind # "_[_]" THEN AddressOf(e, IndexMemory).v
    ELSE LET base == IF e.args[1].type.kind = "Ptr" THEN ValueOf(e.args[1], IndexMemory).v
                     ELSE IndexAddress(e.args[1])
         IN  base + ValueOf(e.args[2], IndexMemory).v * type_size(e.type)

\* C23 (SpecIndex): for every base of type Arr(T, n) or Ptr(T) and every
\* element size (1, 2, 4, 8, 16, 24), the code emit_lvalue emits for a[i]
\* leaves base + i * type_size(T) in the target register.
C23_IndexAddress ==
    tphase = "emitted" =>
        LET m == Exec(tcode, 1, [Machine0 EXCEPT !.mem = IndexMemory])
        IN  m.ok /\ m.r[tt0] = IndexAddress(texpr)

====
